---- MODULE Spec2Model ----
(***************************************************************************)
(* Route extraction of watchapi: the tRPC parser (class TrpcParser and the *)
(* function-style parseTRPCRouters), the Next.js App and Pages parsers and *)
(* the BaseParser.parse template they share.                               *)
(*                                                                         *)
(* Strings are sequences of one-character strings, so that the regular     *)
(* expressions and concatenations of the source are computed, not assumed. *)
(* An optional value (T | undefined) is a sequence of length at most one:  *)
(* None is undefined, Some(v) is v.                                        *)
(***************************************************************************)
EXTENDS Integers, Sequences, FiniteSets, TLC

VARIABLES
    trpcRoot,        \* BaseParser.rootDir of the TrpcParser instance
    routerMounts,    \* TrpcParser.routerMounts (instance field)
    pagesRoot,       \* BaseParser.rootDir of the NextPagesParser instance
    pagesCache,      \* NextPagesParser.routePathCache (instance field)
    routePathCache,  \* next-app-parser.ts: module-level routePathCache
    last,            \* the last invocation: its input and what came back
    runs,            \* number of invocations so far
    inp,             \* input of the function under study (function-level specifications)
    out              \* its result

vars == <<trpcRoot, routerMounts, pagesRoot, pagesCache, routePathCache, last, runs, inp, out>>

None == <<>>
Some(v) == <<v>>

------------------------------------------------------------------------------
(* Character strings *)

StartsWith(s, p) == Len(s) >= Len(p) /\ SubSeq(s, 1, Len(p)) = p

EndsWith(s, p) == Len(s) >= Len(p) /\ SubSeq(s, Len(s) - Len(p) + 1, Len(s)) = p

Includes(s, p) == \E i \in 1..(Len(s) - Len(p) + 1) : SubSeq(s, i, i + Len(p) - 1) = p

DropFirst(s, n) == SubSeq(s, n + 1, Len(s))

DropLast(s, n) == SubSeq(s, 1, Len(s) - n)

\* s.replace(/["']/g, "")
StripQuotes(s) == SelectSeq(s, LAMBDA c : c \notin {"\"", "'"})

\* the index of the last occurrence of character c in s, 0 when there is none
LastIndexOf(s, c) ==
    LET hits == {i \in 1..Len(s) : s[i] = c}
    IN  IF hits = {} THEN 0 ELSE CHOOSE i \in hits : \A j \in hits : j <= i

RECURSIVE JoinWith(_, _)
\* parts.join(sep) for a sequence of strings
JoinWith(parts, sep) ==
    IF parts = <<>> THEN <<>>
    ELSE IF Len(parts) = 1 THEN parts[1]
    ELSE parts[1] \o sep \o JoinWith(Tail(parts), sep)

ToLowerChar(c) ==
    CASE c = "A" -> "a" [] c = "B" -> "b" [] c = "C" -> "c" [] c = "D" -> "d" [] c = "E" -> "e"
      [] c = "F" -> "f" [] c = "G" -> "g" [] c = "H" -> "h" [] c = "I" -> "i" [] c = "J" -> "j"
      [] c = "K" -> "k" [] c = "L" -> "l" [] c = "M" -> "m" [] c = "N" -> "n" [] c = "O" -> "o"
      [] c = "P" -> "p" [] c = "Q" -> "q" [] c = "R" -> "r" [] c = "S" -> "s" [] c = "T" -> "t"
      [] c = "U" -> "u" [] c = "V" -> "v" [] c = "W" -> "w" [] c = "X" -> "x" [] c = "Y" -> "y"
      [] c = "Z" -> "z"
      [] OTHER -> c

sRouter == <<"R", "o", "u", "t", "e", "r">>
sApiTrpc == <<"/", "a", "p", "i", "/", "t", "r", "p", "c", "/">>
sDot == <<".">>
sSlash == <<"/">>

------------------------------------------------------------------------------
(* trpc-detection.ts (not among the sources): router-name normalization, *)
(* from the specification, section 4.6.2                                  *)

\* strip a trailing `Router`, lowercase the first letter
normalizeRouterName(name) ==
    LET stripped == IF EndsWith(name, sRouter) THEN DropLast(name, 6) ELSE name
    IN  IF stripped = <<>> THEN <<>>
        ELSE <<ToLowerChar(stripped[1])>> \o Tail(stripped)

------------------------------------------------------------------------------
(* Maps (JavaScript Map / plain object): functions over the set of keys *)

EmptyMap == [k \in {} |-> k]

MapHas(m, k) == k \in DOMAIN m

MapPut(m, k, v) == [x \in (DOMAIN m) \cup {k} |-> IF x = k THEN v ELSE m[x]]

\* a || b on strings: the empty string is falsy
OrElse(a, b) == IF a # <<>> THEN a ELSE b

------------------------------------------------------------------------------
(* TrpcParser.resolveRouterPaths / resolveRouterPaths *)

RECURSIVE ByNormalizedFrom(_, _)
\* routers.forEach(router => byNormalized.set(normalized, router.name))
ByNormalizedFrom(routers, m) ==
    IF routers = <<>> THEN m
    ELSE LET name == Head(routers).name
             normalized == OrElse(normalizeRouterName(name), name)
         IN  ByNormalizedFrom(Tail(routers), MapPut(m, normalized, name))

\* the key under which a mount edge is filed, None when it is dropped
MountKey(mount, byNormalized) ==
    LET candidates == SelectSeq(<<normalizeRouterName(mount.target),
                                  normalizeRouterName(mount.property)>>,
                                LAMBDA c : c # <<>>)
        \* candidates.map(c => byNormalized.get(c)).find(Boolean)
        found == SelectSeq(candidates,
                           LAMBDA c : MapHas(byNormalized, c) /\ byNormalized[c] # <<>>)
    IN  IF found # <<>> THEN Some(byNormalized[found[1]])
        ELSE IF candidates # <<>> THEN Some(candidates[1])
        ELSE None

RECURSIVE IncomingFromFront(_, _, _)
\* each mount put in front of the list of its key
IncomingFromFront(mounts, byNormalized, incoming) ==
    IF mounts = <<>> THEN incoming
    ELSE LET mount == Head(mounts)
             key == MountKey(mount, byNormalized)
             list == IF key # None /\ MapHas(incoming, key[1])
                     THEN incoming[key[1]] ELSE <<>>
         IN  IncomingFromFront(Tail(mounts), byNormalized,
                               IF key = None THEN incoming
                               ELSE MapPut(incoming, key[1], <<mount>> \o list))

RECURSIVE IncomingFrom(_, _, _)
\* mounts.forEach(mount => incoming.get(key).push(mount))
IncomingFrom(mounts, byNormalized, incoming) ==
    IF mounts = <<>> THEN incoming
    ELSE LET mount == Head(mounts)
             key == MountKey(mount, byNormalized)
             list == IF key # None /\ MapHas(incoming, key[1])
                     THEN incoming[key[1]] ELSE <<>>
         IN  IncomingFrom(Tail(mounts), byNormalized,
                          IF key = None THEN incoming
                          ELSE MapPut(incoming, key[1], Append(list, mount)))

\* routers with no incoming edge, under their name and their normalized name
RootsOf(routers, incoming) ==
    UNION {
        LET name == routers[i].name
            norm == OrElse(normalizeRouterName(name), name)
        IN  IF ~MapHas(incoming, name) /\ ~MapHas(incoming, norm)
            THEN {name, norm} ELSE {}
        : i \in 1..Len(routers) }

\* incoming.get(name) ?? incoming.get(normalized) ?? []
EdgesOf(name, incoming) ==
    LET normalized == OrElse(normalizeRouterName(name), name)
    IN  IF MapHas(incoming, name) THEN incoming[name]
        ELSE IF MapHas(incoming, normalized) THEN incoming[normalized]
        ELSE <<>>

\* the last incoming edge instead of the first
PickEdgeLast(edges) == edges[Len(edges)]

\* which of a router's incoming edges its path is built from
PickEdge(edges) == edges[1]

\* what a call of resolve returns and leaves: the value returned, the maps,
\* and the record of the call added to the log of calls in order of return
Returned(name, st, resolved, resolving, ret, log) ==
    [resolved |-> resolved, resolving |-> resolving, ret |-> ret,
     log |-> Append(log, [name |-> name, before |-> st.resolved,
                          inProgress |-> st.resolving, after |-> resolved,
                          ret |-> ret, calls |-> Len(log) - Len(st.log)])]

\* the path built from the path of the parent and the property of the edge
MountedPath(parentPath, edge) ==
    IF parentPath # <<>> THEN parentPath \o sDot \o edge.property ELSE edge.property

\* the router left in the in-progress set
MountedKeepsResolving(name, st, edge, sub) ==
    Returned(name, st, MapPut(sub.resolved, name, MountedPath(sub.ret, edge)),
             sub.resolving, MountedPath(sub.ret, edge), sub.log)

\* the end of resolve for a mounted router: sub is what resolve(edge.parent)
\* returned and left
Mounted(name, st, edge, sub) ==
    Returned(name, st, MapPut(sub.resolved, name, MountedPath(sub.ret, edge)),
             sub.resolving \ {name}, MountedPath(sub.ret, edge), sub.log)

\* a router resolved before answered with its name
MemoisedAsName(name, st) ==
    Returned(name, st, st.resolved, st.resolving, name, st.log)

\* if (resolved.has(name)) return resolved.get(name)!
Memoised(name, st) ==
    Returned(name, st, st.resolved, st.resolving, st.resolved[name], st.log)

RECURSIVE resolve(_, _, _, _)
\* a router met while it is being resolved gets its own name as resolved path
resolveRecordingCycle(name, st, incoming, roots) ==
    IF MapHas(st.resolved, name)
    THEN Memoised(name, st)
    ELSE IF name \in st.resolving
    THEN Returned(name, st, MapPut(st.resolved, name, name), st.resolving, name, st.log)
    ELSE IF EdgesOf(name, incoming) = <<>>
    THEN Returned(name, st,
                  MapPut(st.resolved, name,
                         IF name \in roots \/ OrElse(normalizeRouterName(name), name) \in roots
                         THEN <<>> ELSE name),
                  st.resolving,
                  IF name \in roots \/ OrElse(normalizeRouterName(name), name) \in roots
                  THEN <<>> ELSE name,
                  st.log)
    ELSE Mounted(name, st, PickEdge(EdgesOf(name, incoming)),
                 resolve(PickEdge(EdgesOf(name, incoming)).parent,
                         [st EXCEPT !.resolving = @ \cup {name}], incoming, roots))

\* the closure `resolve` of resolveRouterPaths; st is [resolved, resolving,
\* log], the result adds ret, the value returned
resolve(name, st, incoming, roots) ==
    IF MapHas(st.resolved, name)
    THEN Memoised(name, st)
    ELSE IF name \in st.resolving
    THEN Returned(name, st, st.resolved, st.resolving, name, st.log)
    ELSE IF EdgesOf(name, incoming) = <<>>
    THEN Returned(name, st,
                  MapPut(st.resolved, name,
                         IF name \in roots \/ OrElse(normalizeRouterName(name), name) \in roots
                         THEN <<>> ELSE name),
                  st.resolving,
                  IF name \in roots \/ OrElse(normalizeRouterName(name), name) \in roots
                  THEN <<>> ELSE name,
                  st.log)
    ELSE Mounted(name, st, PickEdge(EdgesOf(name, incoming)),
                 resolve(PickEdge(EdgesOf(name, incoming)).parent,
                         [st EXCEPT !.resolving = @ \cup {name}], incoming, roots))

\* the maps of the resolver after a call, its return value dropped
Carried(r) == [resolved |-> r.resolved, resolving |-> r.resolving, log |-> r.log]

RECURSIVE ResolveAll(_, _, _, _)
\* routers.forEach(router => resolve(router.name))
ResolveAll(routers, st, incoming, roots) ==
    IF routers = <<>> THEN st
    ELSE ResolveAll(Tail(routers),
                    Carried(resolve(Head(routers).name, st, incoming, roots)),
                    incoming, roots)

\* the resolution of all routers, given the index of incoming edges
ResolveWith(routers, incoming) ==
    ResolveAll(routers, [resolved |-> EmptyMap, resolving |-> {}, log |-> <<>>], incoming,
               RootsOf(routers, incoming))

\* the state of the resolver on return: the resolved map and the in-progress set
resolveRouterPathsState(routers, mounts) ==
    ResolveWith(routers, IncomingFrom(mounts, ByNormalizedFrom(routers, EmptyMap), EmptyMap))

resolveRouterPaths(routers, mounts) == resolveRouterPathsState(routers, mounts).resolved

------------------------------------------------------------------------------
(* JSON values and documents.  A value is one of                           *)
(*   [t |-> "str", s], [t |-> "num", n], [t |-> "bool", b], [t |-> "null"], *)
(*   [t |-> "obj", es] (entries [k, v] in insertion order), [t |-> "arr", xs] *)
(* and a document (a string holding JSON text) is [doc |-> "json", v] or   *)
(* [doc |-> "garbage"], a non-empty string that is not JSON.               *)

JStr(s) == [t |-> "str", s |-> s]
JNum(n) == [t |-> "num", n |-> n]
JBool(b) == [t |-> "bool", b |-> b]
JNull == [t |-> "null"]
JObj(es) == [t |-> "obj", es |-> es]
JArr(xs) == [t |-> "arr", xs |-> xs]

\* JSON.stringify(v)
JsonStringify(v) == [doc |-> "json", v |-> v]

Garbage == [doc |-> "garbage"]

\* JSON.parse(text): [ok |-> FALSE] when it throws
JsonParse(text) ==
    IF text.doc = "json" THEN [ok |-> TRUE, v |-> text.v] ELSE [ok |-> FALSE]

DigitChar(d) ==
    CASE d = 0 -> "0" [] d = 1 -> "1" [] d = 2 -> "2" [] d = 3 -> "3" [] d = 4 -> "4"
      [] d = 5 -> "5" [] d = 6 -> "6" [] d = 7 -> "7" [] d = 8 -> "8" [] OTHER -> "9"

RECURSIVE NatToString(_)
NatToString(n) ==
    IF n < 10 THEN <<DigitChar(n)>> ELSE NatToString(n \div 10) \o <<DigitChar(n % 10)>>

sTrue == <<"t", "r", "u", "e">>
sFalse == <<"f", "a", "l", "s", "e">>

\* String(value) for a string, a number or a boolean
StringOf(v) ==
    CASE v.t = "str" -> v.s
      [] v.t = "num" -> NatToString(v.n)
      [] v.t = "bool" -> IF v.b THEN sTrue ELSE sFalse
      [] OTHER -> <<>>

------------------------------------------------------------------------------
(* zod-schema-parser.ts (not among the sources): extractBodyFromSchema,    *)
(* from the table of the specification, section 4.3.  A schema is          *)
(*   [k |-> "string" | "number" | "boolean" | "unknown"],                  *)
(*   [k |-> "literal", v], [k |-> "enum", vs], [k |-> "array", inner],     *)
(*   [k |-> "object", fields] (fields [k, s] in source order),             *)
(*   [k |-> "default", v], [k |-> "optional" | "nullable", inner].         *)

sString == <<"s", "t", "r", "i", "n", "g">>

RECURSIVE SchemaExample(_)
RECURSIVE ObjectExample(_)

\* the example entries of an object schema: a field whose schema is not
\* understood is left out
ObjectExample(fields) ==
    IF fields = <<>> THEN <<>>
    ELSE LET f == Head(fields)
             ex == SchemaExample(f.s)
         IN  (IF ex = None THEN <<>> ELSE <<[k |-> f.k, v |-> ex[1]]>>)
             \o ObjectExample(Tail(fields))

\* the example value of a schema, None when it is not understood
SchemaExample(schema) ==
    CASE schema.k = "string" -> Some(JStr(sString))
      [] schema.k = "number" -> Some(JNum(0))
      [] schema.k = "boolean" -> Some(JBool(FALSE))
      [] schema.k = "literal" -> Some(schema.v)
      [] schema.k = "enum" -> IF schema.vs = <<>> THEN None ELSE Some(schema.vs[1])
      [] schema.k = "array" ->
            LET ex == SchemaExample(schema.inner)
            IN  IF ex = None THEN None ELSE Some(JArr(<<ex[1]>>))
      [] schema.k = "object" -> Some(JObj(ObjectExample(schema.fields)))
      [] schema.k = "default" -> Some(schema.v)
      [] schema.k \in {"optional", "nullable"} -> SchemaExample(schema.inner)
      [] OTHER -> None

\* extractBodyFromSchema(expr): a JSON document or undefined
extractBodyFromSchema(arg) ==
    IF arg.a # "schema" THEN None
    ELSE LET ex == SchemaExample(arg.schema)
         IN  IF ex = None THEN None ELSE Some(JsonStringify(ex[1]))

------------------------------------------------------------------------------
(* The syntax the tRPC parser reads.                                       *)
(*   source file : [path, routerCalls]   (path relative to the root)       *)
(*   router call : [name, arg, props]    (arg: "object" | "other" | "none") *)
(*   property    : [kind, nameText, init] (kind: "assignment" | "shorthand" *)
(*                 | "other"; init: the initializer, None when absent)     *)
(*   expression  : [e |-> "ident", text, declIsRouter]                     *)
(*               | [e |-> "factoryCall", text]                             *)
(*               | [e |-> "chain", base, links]   base.link1(..).link2(..) *)
(*               | [e |-> "other", text]                                   *)
(*   link        : [name, arg]  arg: None | Some([a |-> "fn", lines])      *)
(*                 | Some([a |-> "schema", schema]) | Some([a |-> "other"]) *)

sGET == <<"G", "E", "T">>
sPOST == <<"P", "O", "S", "T">>
sPUT == <<"P", "U", "T">>
sPATCH == <<"P", "A", "T", "C", "H">>
sDELETE == <<"D", "E", "L", "E", "T", "E">>
sHEAD == <<"H", "E", "A", "D">>
sOPTIONS == <<"O", "P", "T", "I", "O", "N", "S">>

JsonHeaders == [h \in {"Content-Type"} |-> "application/json"]

\* trpc-detection.ts (not among the sources), from the specification, section
\* 4.6: a direct factory call, an identifier declared by a factory call, or an
\* identifier matching the configured router-identifier pattern (/Router$/)
isRouterReference(expr, detection) ==
    \/ expr.e = "factoryCall"
    \/ /\ expr.e = "ident"
       /\ \/ expr.declIsRouter
          \/ detection.identifierPattern /\ EndsWith(expr.text, sRouter)

\* trpc-detection.ts (not among the sources): the identifier a reference names
getRouterReferenceName(expr) == IF expr.e = "ident" THEN Some(expr.text) ELSE None

\* buildRouterDetectionConfig(undefined, undefined, debug): no user pattern
DefaultDetection == [identifierPattern |-> FALSE]

mapProcedureType(identifier, fallback) ==
    CASE identifier = <<"p", "u", "b", "l", "i", "c", "P", "r", "o", "c", "e", "d", "u", "r", "e">>
            -> "public"
      [] identifier = <<"p", "r", "i", "v", "a", "t", "e", "P", "r", "o", "c", "e", "d", "u", "r", "e">>
            -> "private"
      [] identifier = <<"p", "r", "o", "t", "e", "c", "t", "e", "d", "P", "r", "o", "c", "e", "d", "u", "r", "e">>
            -> "protected"
      [] identifier = <<"a", "d", "m", "i", "n", "P", "r", "o", "c", "e", "d", "u", "r", "e">>
            -> "admin"
      [] OTHER -> fallback

\* no headers for a procedure without resolver
analyzeResolverBare(resolver) ==
    IF resolver = None
    THEN [resolverLines |-> 0, headers |-> EmptyMap]
    ELSE [resolverLines |-> resolver[1].lines, headers |-> JsonHeaders]

\* resolver is None or Some([a |-> "fn", lines]); the heuristic flags usesDb,
\* hasErrorHandling and hasSideEffects never reach a route and are left out
analyzeResolver(resolver) ==
    IF resolver = None
    THEN [resolverLines |-> 0, headers |-> JsonHeaders]
    ELSE [resolverLines |-> resolver[1].lines, headers |-> JsonHeaders]

RECURSIVE walkExpression(_, _, _)
\* the closure walkExpression of parseProcedure on base.link1(..)...linkN(..):
\* the outermost call is the last link, and the walk goes inward
walkExpression(base, links, acc) ==
    IF links = <<>>
    THEN IF base.b = "call"
         THEN [acc EXCEPT !.procedureType = mapProcedureType(base.text, @)]
         ELSE acc
    ELSE LET link == links[Len(links)]
             inner == SubSeq(links, 1, Len(links) - 1)
             a1 == IF link.name = "input"
                   THEN [acc EXCEPT !.input = TRUE,
                                    !.inputSchema = IF link.arg # None THEN link.arg ELSE @]
                   ELSE acc
             a2 == IF link.name = "output" THEN [a1 EXCEPT !.output = TRUE] ELSE a1
             a3 == IF link.name \in {"mutation", "query"}
                   THEN [a2 EXCEPT !.method = Some(link.name),
                                   !.resolver = IF link.arg # None /\ link.arg[1].a = "fn"
                                                THEN link.arg ELSE @]
                   ELSE a2
             a4 == IF inner = <<>> /\ base.b = "ident"
                   THEN [a3 EXCEPT !.procedureType = mapProcedureType(base.text, @)]
                   ELSE a3
         IN  walkExpression(base, inner, a4)

\* the variables of parseProcedure before the walk
WalkStart ==
    [method |-> None, input |-> FALSE, output |-> FALSE,
     procedureType |-> "unknown", resolver |-> None, inputSchema |-> None]

\* a chain with .input(...) taken for a query when it names no method
ProcedureNodeOfDefaultQuery(w, procedureName, routerName, file) ==
    IF w.method = None /\ ~w.input THEN None
    ELSE Some([router |-> routerName,
               procedure |-> procedureName,
               method |-> IF w.method = None THEN "query" ELSE w.method[1],
               input |-> w.input,
               output |-> w.output,
               file |-> file,
               procedureType |-> w.procedureType,
               bodyExample |-> IF w.inputSchema # None
                               THEN extractBodyFromSchema(w.inputSchema[1])
                               ELSE None,
               queryParams |-> None,
               resolverLines |-> analyzeResolver(w.resolver).resolverLines,
               headers |-> analyzeResolver(w.resolver).headers])

\* the end of parseProcedure: null without method, else the node built from
\* what the walk found
ProcedureNodeOf(w, procedureName, routerName, file) ==
    IF w.method = None THEN None
    ELSE Some([router |-> routerName,
               procedure |-> procedureName,
               method |-> w.method[1],
               input |-> w.input,
               output |-> w.output,
               file |-> file,
               procedureType |-> w.procedureType,
               bodyExample |-> IF w.inputSchema # None
                               THEN extractBodyFromSchema(w.inputSchema[1])
                               ELSE None,
               queryParams |-> None,
               resolverLines |-> analyzeResolver(w.resolver).resolverLines,
               headers |-> analyzeResolver(w.resolver).headers])

\* parseProcedure: Some(TrpcProcedureNode) or None (null)
parseProcedure(expression, procedureName, routerName, file) ==
    ProcedureNodeOf(IF expression.e = "chain"
                    THEN walkExpression(expression.base, expression.links, WalkStart)
                    ELSE WalkStart,
                    procedureName, routerName, file)

\* the last "/"-separated part of a path
BaseName(path) == DropFirst(path, LastIndexOf(path, "/"))

\* s.replace(/\.[^.]+$/, "")
StripExtension(s) ==
    LET i == LastIndexOf(s, ".")
    IN  IF i > 0 /\ i < Len(s) THEN SubSeq(s, 1, i - 1) ELSE s

\* TrpcParser.deriveRouterPath
deriveRouterPath(routerName, file) ==
    LET fromName == normalizeRouterName(routerName)
        fromFile == normalizeRouterName(StripExtension(BaseName(file)))
        cut == LastIndexOf(file, "/")
        dirBase == IF cut > 0 THEN BaseName(SubSeq(file, 1, cut - 1)) ELSE <<>>
        fromDir == normalizeRouterName(dirBase)
    IN  IF fromName # <<>> THEN fromName
        ELSE IF fromFile # <<>> THEN fromFile
        ELSE IF fromDir # <<>> THEN fromDir
        ELSE routerName

\* property.getNameNode().getText().replace(/["']/g, "")
PropertyName(property) == StripQuotes(property.nameText)

\* nodes.push(procedureNode) unless it is null
PushNode(acc, procedureNode) ==
    IF procedureNode # None THEN [acc EXCEPT !.nodes = Append(@, procedureNode[1])] ELSE acc

\* the recorded edge of a router reference
MountEdge(property, routerDisplayName) ==
    [parent |-> routerDisplayName,
     property |-> PropertyName(property),
     target |-> IF getRouterReferenceName(property.init[1]) # None
                THEN getRouterReferenceName(property.init[1])[1]
                ELSE property.init[1].text]

\* the procedures of a router written in place analysed with those of the
\* router that mounts it
parsePropertyDescending(property, routerDisplayName, file, detection, acc) ==
    IF property.kind \notin {"assignment", "shorthand"} \/ property.init = None
    THEN acc
    ELSE IF isRouterReference(property.init[1], detection)
    THEN IF property.init[1].e = "factoryCall"
         THEN PushNode([acc EXCEPT !.mounts = Append(@, MountEdge(property, routerDisplayName))],
                       parseProcedure(property.init[1].props[1].init[1],
                                      PropertyName(property.init[1].props[1]),
                                      routerDisplayName, file))
         ELSE [acc EXCEPT !.mounts = Append(@, MountEdge(property, routerDisplayName))]
    ELSE PushNode(acc, parseProcedure(property.init[1], PropertyName(property),
                                      routerDisplayName, file))

\* one turn of the loop of parseRouter over the properties; acc is [nodes, mounts]
parseProperty(property, routerDisplayName, file, detection, acc) ==
    IF property.kind \notin {"assignment", "shorthand"} \/ property.init = None
    THEN acc
    ELSE IF isRouterReference(property.init[1], detection)
    THEN [acc EXCEPT !.mounts = Append(@, MountEdge(property, routerDisplayName))]
    ELSE PushNode(acc, parseProcedure(property.init[1], PropertyName(property),
                                      routerDisplayName, file))

RECURSIVE parseProperties(_, _, _, _, _)
\* the loop of parseRouter over routesArg.getProperties(); acc is [nodes, mounts]
parseProperties(props, routerDisplayName, file, detection, acc) ==
    IF props = <<>> THEN acc
    ELSE parseProperties(Tail(props), routerDisplayName, file, detection,
                         parseProperty(Head(props), routerDisplayName, file, detection, acc))

\* the result of parseRouter from what the loop over the properties collected
RouterParseResult(r, routerDisplayName, file) ==
    [ok |-> TRUE, nodes |-> r.nodes,
     routerMeta |-> [name |-> routerDisplayName, file |-> file],
     mounts |-> r.mounts]

\* parseRouter once the display name of the router is derived
parseRouterAs(call, file, detection, mounts, routerDisplayName) ==
    RouterParseResult(parseProperties(call.props, routerDisplayName, file, detection,
                                      [nodes |-> <<>>, mounts |-> mounts]),
                      routerDisplayName, file)

\* parseRouter: [ok, nodes, routerMeta, mounts]; ok is FALSE for null
parseRouter(call, file, detection, mounts) ==
    IF call.arg # "object"
    THEN [ok |-> FALSE, nodes |-> <<>>, routerMeta |-> [name |-> <<>>, file |-> file],
          mounts |-> mounts]
    ELSE parseRouterAs(call, file, detection, mounts, deriveRouterPath(call.name, file))

\* nodes.push(...router.nodes); routers.push(router.routerMeta), unless null
PushRouter(acc, router) ==
    IF router.ok
    THEN [nodes |-> acc.nodes \o router.nodes,
          routers |-> Append(acc.routers, router.routerMeta),
          mounts |-> router.mounts]
    ELSE [acc EXCEPT !.mounts = router.mounts]

RECURSIVE parseRouterCalls(_, _, _, _)
\* extractProceduresFromFile: routerCalls.forEach(...); acc is [nodes, routers, mounts]
parseRouterCalls(calls, file, detection, acc) ==
    IF calls = <<>> THEN acc
    ELSE parseRouterCalls(Tail(calls), file, detection,
                          PushRouter(acc, parseRouter(Head(calls), file, detection, acc.mounts)))

RECURSIVE extractProcedures(_, _, _)
\* the loop of parseRoutes over the source files
extractProcedures(files, detection, acc) ==
    IF files = <<>> THEN acc
    ELSE extractProcedures(Tail(files), detection,
             parseRouterCalls(Head(files).routerCalls, Head(files).path, detection, acc))

------------------------------------------------------------------------------
(* TrpcParser.convertBodyToQueryParams, convertToRoutes, parseRoutes *)

RECURSIVE QueryEntries(_)
\* the loop over Object.entries(parsed)
QueryEntries(es) ==
    IF es = <<>> THEN <<>>
    ELSE LET key == Head(es).k
             value == Head(es).v
         IN  (IF value.t = "null" THEN <<[k |-> key, v |-> <<>>]>>
              ELSE IF value.t \in {"obj", "arr"} THEN <<>>
              ELSE <<[k |-> key, v |-> StringOf(value)]>>)
             \o QueryEntries(Tail(es))

\* the query object returned also when it has no key
convertBodyToQueryParamsKeepEmpty(bodyExample) ==
    LET parsed == JsonParse(bodyExample)
    IN  IF ~parsed.ok THEN None
        ELSE IF parsed.v.t # "obj" THEN None
        ELSE Some(QueryEntries(parsed.v.es))

\* Some(query object: entries [k, v] in insertion order) or None (undefined)
convertBodyToQueryParams(bodyExample) ==
    LET parsed == JsonParse(bodyExample)
    IN  IF ~parsed.ok THEN None
        ELSE IF parsed.v.t # "obj" THEN None
        ELSE LET queryParams == QueryEntries(parsed.v.es)
             IN  IF Len(queryParams) > 0 THEN Some(queryParams) ELSE None

\* path.join(rootDir, file)
joinPath(rootDir, file) == rootDir \o sSlash \o file

\* the body example carried whatever the method
TrpcRouteBodyAlways(method, node) == node.bodyExample

\* method === "POST" ? node.bodyExample : undefined
TrpcRouteBody(method, node) == IF method = sPOST THEN node.bodyExample ELSE None

\* one element of nodes.map(...) in convertToRoutes
TrpcRouteOf(node, rootDir) ==
    LET routePath == IF node.router # <<>>
                     THEN sApiTrpc \o node.router \o sDot \o node.procedure
                     ELSE sApiTrpc \o node.procedure
        method == IF node.method = "query" THEN sGET ELSE sPOST
        queryParams == IF method = sGET /\ node.bodyExample # None
                       THEN convertBodyToQueryParams(node.bodyExample[1])
                       ELSE node.queryParams
        body == TrpcRouteBody(method, node)
    IN  [name |-> method \o <<" ">> \o routePath,
         path |-> routePath,
         method |-> method,
         filePath |-> joinPath(rootDir, node.file),
         type |-> "trpc",
         headers |-> IF DOMAIN node.headers # {} THEN Some(node.headers) ELSE None,
         query |-> queryParams,
         body |-> body]

TrpcConvertToRoutes(nodes, rootDir) ==
    [i \in 1..Len(nodes) |-> TrpcRouteOf(nodes[i], rootDir)]

\* the mounts of earlier runs kept
ResetMountsKept(mounts) == mounts

\* this.routerMounts = [] at the start of parseRoutes
ResetMounts(mounts) == <<>>

\* the router field after the composition pass of parseRoutes
MappedRouter(name, routerPathMap) ==
    IF MapHas(routerPathMap, name) /\ routerPathMap[name] # <<>>
    THEN routerPathMap[name] ELSE name

\* the composition pass and the conversion, given the resolved paths
RoutesOfComposition(x, routerPathMap, rootDir) ==
    [routes |-> TrpcConvertToRoutes(
                    [i \in 1..Len(x.nodes) |->
                        [x.nodes[i] EXCEPT !.router = MappedRouter(@, routerPathMap)]],
                    rootDir),
     nodes |-> [i \in 1..Len(x.nodes) |->
                    [x.nodes[i] EXCEPT !.router = MappedRouter(@, routerPathMap)]],
     routers |-> [i \in 1..Len(x.routers) |->
                    [x.routers[i] EXCEPT !.name = MappedRouter(@, routerPathMap)]],
     mounts |-> x.mounts, declared |-> x.routers, pathMap |-> routerPathMap]

\* parseRoutes after the scan of the files; x is [nodes, routers, mounts]
RoutesOfExtraction(x, rootDir) ==
    RoutesOfComposition(x, resolveRouterPaths(x.routers, x.mounts), rootDir)

\* TrpcParser.parseRoutes on the source files of the project; mounts is
\* this.routerMounts before the call.  [routes, nodes, routers, mounts]
parseRoutes(files, rootDir, mounts) ==
    RoutesOfExtraction(extractProcedures(files, DefaultDetection,
                           [nodes |-> <<>>, routers |-> <<>>,
                            mounts |-> ResetMounts(mounts)]),
                       rootDir)

------------------------------------------------------------------------------
(* next-shared.ts (not among the sources): the pattern library, from the *)
(* specification, section 4.2                                             *)

RECURSIVE SplitOn(_, _)
\* s.split(c)
SplitOn(s, c) ==
    LET hits == {i \in 1..Len(s) : s[i] = c}
    IN  IF hits = {} THEN <<s>>
        ELSE LET i == CHOOSE h \in hits : \A j \in hits : h <= j
             IN  <<SubSeq(s, 1, i - 1)>> \o SplitOn(DropFirst(s, i), c)

sOptOpen == <<"[", "[", ".", ".", ".">>
sOptClose == <<"]", "]">>
sCatchOpen == <<"[", ".", ".", ".">>

IsOptionalCatchAll(seg) ==
    StartsWith(seg, sOptOpen) /\ EndsWith(seg, sOptClose) /\ Len(seg) > 7

IsCatchAll(seg) ==
    /\ ~IsOptionalCatchAll(seg)
    /\ StartsWith(seg, sCatchOpen) /\ EndsWith(seg, <<"]">>) /\ Len(seg) > 5

IsParam(seg) ==
    /\ ~IsOptionalCatchAll(seg) /\ ~IsCatchAll(seg)
    /\ StartsWith(seg, <<"[">>) /\ EndsWith(seg, <<"]">>) /\ Len(seg) > 2

IsDynamic(seg) == IsOptionalCatchAll(seg) \/ IsCatchAll(seg) \/ IsParam(seg)

\* the name inside the brackets of a dynamic segment
SegmentName(seg) ==
    IF IsOptionalCatchAll(seg) THEN SubSeq(seg, 6, Len(seg) - 2)
    ELSE IF IsCatchAll(seg) THEN SubSeq(seg, 5, Len(seg) - 1)
    ELSE SubSeq(seg, 2, Len(seg) - 1)

\* [x] -> :x, [...x] -> :x*, [[...x]] -> :x?
ConvertSegment(seg) ==
    IF IsOptionalCatchAll(seg) THEN <<":">> \o SegmentName(seg) \o <<"?">>
    ELSE IF IsCatchAll(seg) THEN <<":">> \o SegmentName(seg) \o <<"*">>
    ELSE IF IsParam(seg) THEN <<":">> \o SegmentName(seg)
    ELSE seg

\* extractDynamicSegments(routePath): {name, isCatchAll, isOptional} in source order
extractDynamicSegments(routePath) ==
    LET segs == SelectSeq(SplitOn(routePath, "/"), IsDynamic)
    IN  [i \in 1..Len(segs) |->
            [name |-> SegmentName(segs[i]),
             isCatchAll |-> IsCatchAll(segs[i]) \/ IsOptionalCatchAll(segs[i]),
             isOptional |-> IsOptionalCatchAll(segs[i])]]

\* convertDynamicSegments(routePath): left to right, once per segment
convertDynamicSegments(routePath) ==
    LET segs == SplitOn(routePath, "/")
    IN  JoinWith([i \in 1..Len(segs) |-> ConvertSegment(segs[i])], sSlash)

\* normalizeRoutePath(routePath): collapse duplicate slashes, strip the trailing
\* slash (except for the root), ensure a leading slash
normalizeRoutePath(routePath) ==
    LET parts == SelectSeq(SplitOn(routePath, "/"), LAMBDA seg : seg # <<>>)
    IN  IF parts = <<>> THEN sSlash ELSE sSlash \o JoinWith(parts, sSlash)

\* NEXTJS_HTTP_METHODS
NEXTJS_HTTP_METHODS == <<sGET, sPOST, sPUT, sPATCH, sDELETE, sHEAD, sOPTIONS>>

IsHttpMethod(name) == \E i \in 1..Len(NEXTJS_HTTP_METHODS) : NEXTJS_HTTP_METHODS[i] = name

\* shouldIncludeBody(method): a body is carried by POST, PUT and PATCH
shouldIncludeBody(method) == method \in {sPOST, sPUT, sPATCH}

\* analyzeHandler(handler, debug, bodyExtractor): headers and query parameters as
\* found in the handler, the body example from the schema its body parses with
analyzeHandler(handler) ==
    [headers |-> handler.headers,
     queryParams |-> handler.queryParams,
     bodyExample |-> IF handler.schema # None
                     THEN extractBodyFromSchema(handler.schema[1]) ELSE None]

------------------------------------------------------------------------------
(* next-app-parser.ts: the App Router parser.                             *)
(*   source file : [path, isTrpc, functions, variables, methodsExport]    *)
(*   function    : [name, exported, headers, queryParams, schema]         *)
(*   variable    : [name, exported, init, headers, queryParams, schema]   *)
(*                 init: "arrow" | "function" | "other" | "none"          *)
(*   methodsExport : None, or Some(the string literals of the exported    *)
(*                 `methods` array)                                       *)

sApp == <<"a", "p", "p">>
sSrcApp == <<"s", "r", "c", "/", "a", "p", "p">>
sPages == <<"p", "a", "g", "e", "s">>
sSrcPages == <<"s", "r", "c", "/", "p", "a", "g", "e", "s">>
sRouteTs == <<"/", "r", "o", "u", "t", "e", ".", "t", "s">>
sRouteJs == <<"/", "r", "o", "u", "t", "e", ".", "j", "s">>
sDotTs == <<".", "t", "s">>
sDotJs == <<".", "j", "s">>
sIndexEnd == <<"/", "i", "n", "d", "e", "x">>
sAppDir == <<"/", "a", "p", "p", "/">>
sPagesApiDir == <<"/", "p", "a", "g", "e", "s", "/", "a", "p", "i", "/">>
sColons == <<":", ":">>

\* path.relative(rootDir, filePath) for a file under the root
relativePath(rootDir, filePath) == DropFirst(filePath, Len(rootDir) + 1)

\* `${rootDir}::${filePath}`
CacheKey(rootDir, filePath) == rootDir \o sColons \o filePath

isAppRouterFile(filePath) ==
    Includes(filePath, sAppDir) /\ (EndsWith(filePath, sRouteTs) \/ EndsWith(filePath, sRouteJs))

\* the src/ prefix not recognised
AppRawRoutePathNoSrc(rel) ==
    LET a == IF StartsWith(rel, sApp) THEN DropFirst(rel, 3) ELSE rel
        b == IF EndsWith(a, sRouteTs) \/ EndsWith(a, sRouteJs) THEN DropLast(a, 9) ELSE a
        c == IF StartsWith(b, sSlash) THEN DropFirst(b, 1) ELSE b
    IN  IF c # <<>> THEN sSlash \o c ELSE sSlash

\* relativePath.replace(/^(src\/)?app/, "").replace(/\/route\.(ts|js)$/, "")
\*             .replace(/^\//, ""), then the leading slash
AppRawRoutePath(rel) ==
    LET a == IF StartsWith(rel, sSrcApp) THEN DropFirst(rel, 7)
             ELSE IF StartsWith(rel, sApp) THEN DropFirst(rel, 3)
             ELSE rel
        b == IF EndsWith(a, sRouteTs) \/ EndsWith(a, sRouteJs) THEN DropLast(a, 9) ELSE a
        c == IF StartsWith(b, sSlash) THEN DropFirst(b, 1) ELSE b
    IN  IF c # <<>> THEN sSlash \o c ELSE sSlash

\* the segments extracted from the path already converted
AppDetectConvertedFirst(rel) ==
    LET routePath == convertDynamicSegments(AppRawRoutePath(rel))
    IN  [routePath |-> routePath,
         dynamicSegments |-> extractDynamicSegments(routePath)]

\* the result computed on a cache miss: segments extracted, then converted
AppDetect(rel) ==
    LET routePath == AppRawRoutePath(rel)
    IN  [routePath |-> convertDynamicSegments(routePath),
         dynamicSegments |-> extractDynamicSegments(routePath)]

\* routePathCache.set(cacheKey, result); return result
Cached(cache, cacheKey, result) ==
    [result |-> result, cache |-> MapPut(cache, cacheKey, result)]

\* extractRoutePath(filePath, rootDir, debug): [result, cache]
AppExtractRoutePath(filePath, rootDir, cache) ==
    IF MapHas(cache, CacheKey(rootDir, filePath))
    THEN [result |-> cache[CacheKey(rootDir, filePath)], cache |-> cache]
    ELSE Cached(cache, CacheKey(rootDir, filePath), AppDetect(relativePath(rootDir, filePath)))

\* handlers.set(method, node): a Map keeps the place of a key already present
HandlersSet(handlers, method, node) ==
    IF \E i \in 1..Len(handlers) : handlers[i].method = method
    THEN [i \in 1..Len(handlers) |->
            IF handlers[i].method = method THEN [method |-> method, node |-> node]
            ELSE handlers[i]]
    ELSE Append(handlers, [method |-> method, node |-> node])

RECURSIVE CollectFunctions(_, _)
CollectFunctions(functions, handlers) ==
    IF functions = <<>> THEN handlers
    ELSE LET func == Head(functions)
         IN  CollectFunctions(Tail(functions),
                 IF func.exported /\ IsHttpMethod(func.name)
                 THEN HandlersSet(handlers, func.name, func) ELSE handlers)

RECURSIVE CollectVariables(_, _)
CollectVariables(variables, handlers) ==
    IF variables = <<>> THEN handlers
    ELSE LET decl == Head(variables)
         IN  CollectVariables(Tail(variables),
                 IF IsHttpMethod(decl.name) /\ decl.exported
                    /\ decl.init \in {"arrow", "function"}
                 THEN HandlersSet(handlers, decl.name, decl) ELSE handlers)

RECURSIVE CollectExported(_, _)
\* sourceFile.getExportedDeclarations().forEach(...): every exported function or
\* variable declaration named by a verb
CollectExported(decls, handlers) ==
    IF decls = <<>> THEN handlers
    ELSE LET decl == Head(decls)
         IN  CollectExported(Tail(decls),
                 IF IsHttpMethod(decl.name) /\ decl.exported
                 THEN HandlersSet(handlers, decl.name, decl) ELSE handlers)

\* collectHttpMethodHandlers(sourceFile): entries [method, node] in insertion order
collectHttpMethodHandlers(sourceFile) ==
    CollectExported(sourceFile.functions \o sourceFile.variables,
        CollectVariables(sourceFile.variables,
            CollectFunctions(sourceFile.functions, <<>>)))

ToUpperChar(c) ==
    CASE c = "a" -> "A" [] c = "b" -> "B" [] c = "c" -> "C" [] c = "d" -> "D" [] c = "e" -> "E"
      [] c = "f" -> "F" [] c = "g" -> "G" [] c = "h" -> "H" [] c = "i" -> "I" [] c = "j" -> "J"
      [] c = "k" -> "K" [] c = "l" -> "L" [] c = "m" -> "M" [] c = "n" -> "N" [] c = "o" -> "O"
      [] c = "p" -> "P" [] c = "q" -> "Q" [] c = "r" -> "R" [] c = "s" -> "S" [] c = "t" -> "T"
      [] c = "u" -> "U" [] c = "v" -> "V" [] c = "w" -> "W" [] c = "x" -> "X" [] c = "y" -> "Y"
      [] c = "z" -> "Z"
      [] OTHER -> c

ToUpperCase(s) == [i \in 1..Len(s) |-> ToUpperChar(s[i])]

RECURSIVE MethodsOfLiterals(_, _)
\* the loop of extractMethodsFromExpression over the array elements
MethodsOfLiterals(elements, methods) ==
    IF elements = <<>> THEN methods
    ELSE LET value == ToUpperCase(Head(elements))
         IN  MethodsOfLiterals(Tail(elements),
                 IF IsHttpMethod(value) /\ ~(\E i \in 1..Len(methods) : methods[i] = value)
                 THEN Append(methods, value) ELSE methods)

\* detectExportedMethods(sourceFile)
detectExportedMethods(sourceFile) ==
    IF sourceFile.methodsExport = None THEN <<>>
    ELSE MethodsOfLiterals(sourceFile.methodsExport[1], <<>>)

RECURSIVE AddAllRepeating(_, _)
\* the elements kept as often as they come
AddAllRepeating(xs, set) ==
    IF xs = <<>> THEN set ELSE AddAllRepeating(Tail(xs), Append(set, Head(xs)))

RECURSIVE AddAll(_, _)
\* new Set([...a, ...b]): insertion order, no repeats
AddAll(xs, set) ==
    IF xs = <<>> THEN set
    ELSE AddAll(Tail(xs),
                IF \E i \in 1..Len(set) : set[i] = Head(xs) THEN set ELSE Append(set, Head(xs)))

\* the node of the file itself, the handler of a method known only by `methods`
FileNode == [name |-> <<>>, exported |-> FALSE, headers |-> EmptyMap,
             queryParams |-> None, schema |-> None]

\* methodHandlers.get(method) ?? sourceFile
HandlerNodeOf(hits) == IF hits # <<>> THEN hits[1].node ELSE FileNode

\* one element of the handlers array of either Next.js parser
HandlerRecord(routePath, dynamicSegments, method, file, type, analysis) ==
    [path |-> normalizeRoutePath(routePath),
     method |-> method,
     file |-> file,
     type |-> type,
     isDynamic |-> Len(dynamicSegments) > 0,
     dynamicSegments |-> [j \in 1..Len(dynamicSegments) |-> dynamicSegments[j].name],
     headers |-> analysis.headers,
     queryParams |-> analysis.queryParams,
     bodyExample |-> analysis.bodyExample]

\* Array.from(methodSet).map(...) of parseAppRouterFile
AppHandlerList(methodSet, methodHandlers, result, file) ==
    [i \in 1..Len(methodSet) |->
        HandlerRecord(result.routePath, result.dynamicSegments, methodSet[i], file,
                      "app-router",
                      analyzeHandler(HandlerNodeOf(
                          SelectSeq(methodHandlers, LAMBDA h : h.method = methodSet[i]))))]

\* parseAppRouterFile once the route path and the method handlers are known
AppHandlersOf(sourceFile, rootDir, x, methodHandlers) ==
    [handlers |->
        AppHandlerList(AddAll([i \in 1..Len(methodHandlers) |-> methodHandlers[i].method]
                              \o detectExportedMethods(sourceFile), <<>>),
                       methodHandlers, x.result, relativePath(rootDir, sourceFile.path)),
     cache |-> x.cache]

\* parseAppRouterFile(sourceFile, rootDir, debug): [handlers, cache]
parseAppRouterFile(sourceFile, rootDir, cache) ==
    AppHandlersOf(sourceFile, rootDir,
                  AppExtractRoutePath(sourceFile.path, rootDir, cache),
                  collectHttpMethodHandlers(sourceFile))

\* handler.bodyExample && shouldIncludeBody(handler.method) ? bodyExample : undefined
NextEffectiveBody(handler) ==
    IF handler.bodyExample # None /\ shouldIncludeBody(handler.method)
    THEN handler.bodyExample ELSE None

\* one element of handlers.map(...) in convertToRoutes (both Next parsers)
NextRouteOf(handler, rootDir, type) ==
    [name |-> handler.method \o <<" ">> \o handler.path,
     path |-> handler.path,
     method |-> handler.method,
     filePath |-> joinPath(rootDir, handler.file),
     type |-> type,
     headers |-> IF DOMAIN handler.headers # {} THEN Some(handler.headers) ELSE None,
     query |-> handler.queryParams,
     body |-> NextEffectiveBody(handler)]

\* convertToRoutes of next-app-parser.ts
AppConvertToRoutes(handlers, rootDir) ==
    [i \in 1..Len(handlers) |-> NextRouteOf(handlers[i], rootDir, "nextjs-app")]

\* the handlers of the file put in front of those collected so far
PushHandlersFront(acc, r) == [handlers |-> r.handlers \o acc.handlers, cache |-> r.cache]

\* handlers.push(...fileHandlers), the cache as the file left it
PushHandlers(acc, r) == [handlers |-> acc.handlers \o r.handlers, cache |-> r.cache]

RECURSIVE AppScanFiles(_, _, _)
\* the loop of parseNextAppRoutes over the source files; acc is [handlers, cache]
AppScanFiles(files, rootDir, acc) ==
    IF files = <<>> THEN acc
    ELSE AppScanFiles(Tail(files), rootDir,
             IF Head(files).isTrpc \/ ~isAppRouterFile(Head(files).path) THEN acc
             ELSE PushHandlers(acc, parseAppRouterFile(Head(files), rootDir, acc.cache)))

------------------------------------------------------------------------------
(* NextPagesParser: the Pages Router parser.                              *)
(*   source file : [path, isTrpc, defaultExport, handlerExport,           *)
(*                  methodsExport]                                        *)
(*   handler node: [kind, params, descendants, headers, queryParams,      *)
(*                  schema]; kind: "function" | "arrow" | "other"         *)
(*   descendant  : [n |-> "binary", op, left, right]                      *)
(*               | [n |-> "switch", expr, clauses]  (None: default clause) *)
(*   operand     : [o |-> "access", obj, name] | [o |-> "literal", value] *)
(*               | [o |-> "other"]                                        *)

sReq == <<"r", "e", "q">>
sRequest == <<"r", "e", "q", "u", "e", "s", "t">>
sMethod == <<"m", "e", "t", "h", "o", "d">>

\* files named route.ts and route.js not left to the other parser
isPagesRouterFileAnyName(filePath) == Includes(filePath, sPagesApiDir)

isPagesRouterFile(filePath) ==
    /\ Includes(filePath, sPagesApiDir)
    /\ ~EndsWith(filePath, sRouteTs)
    /\ ~EndsWith(filePath, sRouteJs)

\* the trailing /index kept
PagesRawRoutePathKeepIndex(rel) ==
    LET a == IF StartsWith(rel, sSrcPages) THEN DropFirst(rel, 9)
             ELSE IF StartsWith(rel, sPages) THEN DropFirst(rel, 5)
             ELSE rel
        b == IF EndsWith(a, sDotTs) \/ EndsWith(a, sDotJs) THEN DropLast(a, 3) ELSE a
    IN  IF b = <<>> THEN sSlash ELSE b

\* relativePath.replace(/^(src\/)?pages/, "").replace(/\.(ts|js)$/, "")
\*             .replace(/\/index$/, ""), "/" when nothing is left
PagesRawRoutePath(rel) ==
    LET a == IF StartsWith(rel, sSrcPages) THEN DropFirst(rel, 9)
             ELSE IF StartsWith(rel, sPages) THEN DropFirst(rel, 5)
             ELSE rel
        b == IF EndsWith(a, sDotTs) \/ EndsWith(a, sDotJs) THEN DropLast(a, 3) ELSE a
        c == IF EndsWith(b, sIndexEnd) THEN DropLast(b, 6) ELSE b
    IN  IF c = <<>> THEN sSlash ELSE c

\* the result computed on a cache miss: segments extracted, then converted
PagesDetect(rel) ==
    LET routePath == PagesRawRoutePath(rel)
    IN  [routePath |-> convertDynamicSegments(routePath),
         dynamicSegments |-> extractDynamicSegments(routePath)]

\* NextPagesParser.extractRoutePath(filePath): [result, cache]
PagesExtractRoutePath(filePath, rootDir, cache) ==
    IF MapHas(cache, CacheKey(rootDir, filePath))
    THEN [result |-> cache[CacheKey(rootDir, filePath)], cache |-> cache]
    ELSE Cached(cache, CacheKey(rootDir, filePath), PagesDetect(relativePath(rootDir, filePath)))

\* detectPagesRouterHandler(sourceFile): the default export, else `handler`
detectPagesRouterHandler(sourceFile) ==
    IF sourceFile.defaultExport # None THEN sourceFile.defaultExport
    ELSE sourceFile.handlerExport

\* collectReqParamNames(handler)
collectReqParamNames(handler) ==
    {sReq, sRequest} \cup
    (IF handler.kind \in {"function", "arrow"} /\ handler.params # <<>>
        /\ handler.params[1] # None
     THEN {handler.params[1][1]} ELSE {})

\* isReqMethodExpression(node, reqParamNames)
isReqMethodExpression(node, reqParamNames) ==
    node.o = "access" /\ node.name = sMethod /\ node.obj \in reqParamNames

\* extractMethodLiteral(node): the verb a string literal spells, in upper case
extractMethodLiteral(node) ==
    IF node.o = "literal" /\ IsHttpMethod(ToUpperCase(node.value))
    THEN Some(ToUpperCase(node.value)) ELSE None

\* methods.add(method) on a Set kept in insertion order
SetAdd(set, x) == IF \E i \in 1..Len(set) : set[i] = x THEN set ELSE Append(set, x)

RECURSIVE CaseMethods(_, _)
CaseMethods(clauses, methods) ==
    IF clauses = <<>> THEN methods
    ELSE LET clause == Head(clauses)
             literal == IF clause = None THEN None ELSE extractMethodLiteral(clause[1])
         IN  CaseMethods(Tail(clauses),
                 IF literal # None THEN SetAdd(methods, literal[1]) ELSE methods)

\* the operator of the comparison not looked at
VisitDescendantAnyOperator(node, reqParamNames, methods) ==
    IF node.n = "binary"
    THEN LET leftMethod == extractMethodLiteral(node.left)
             rightMethod == extractMethodLiteral(node.right)
         IN  IF isReqMethodExpression(node.left, reqParamNames) /\ rightMethod # None
             THEN SetAdd(methods, rightMethod[1])
             ELSE IF isReqMethodExpression(node.right, reqParamNames)
                     /\ leftMethod # None
             THEN SetAdd(methods, leftMethod[1])
             ELSE methods
    ELSE IF node.n = "switch"
    THEN IF ~isReqMethodExpression(node.expr, reqParamNames) THEN methods
         ELSE CaseMethods(node.clauses, methods)
    ELSE methods

\* the callback of handler.forEachDescendant(...) on one node
VisitDescendant(node, reqParamNames, methods) ==
    IF node.n = "binary"
    THEN IF node.op \notin {"===", "=="} THEN methods
         ELSE LET leftMethod == extractMethodLiteral(node.left)
                  rightMethod == extractMethodLiteral(node.right)
              IN  IF isReqMethodExpression(node.left, reqParamNames) /\ rightMethod # None
                  THEN SetAdd(methods, rightMethod[1])
                  ELSE IF isReqMethodExpression(node.right, reqParamNames)
                          /\ leftMethod # None
                  THEN SetAdd(methods, leftMethod[1])
                  ELSE methods
    ELSE IF node.n = "switch"
    THEN IF ~isReqMethodExpression(node.expr, reqParamNames) THEN methods
         ELSE CaseMethods(node.clauses, methods)
    ELSE methods

RECURSIVE VisitAll(_, _, _)
VisitAll(nodes, reqParamNames, methods) ==
    IF nodes = <<>> THEN methods
    ELSE VisitAll(Tail(nodes), reqParamNames,
                  VisitDescendant(Head(nodes), reqParamNames, methods))

\* detectPagesRouterMethods(handler)
detectPagesRouterMethods(handler, sourceFile) ==
    VisitAll(handler.descendants, collectReqParamNames(handler),
             AddAll(detectExportedMethods(sourceFile), <<>>))

\* methods.map(...) of parsePagesRouterFile
PagesHandlerList(methods, result, file, analysis) ==
    [i \in 1..Len(methods) |->
        HandlerRecord(result.routePath, result.dynamicSegments, methods[i], file,
                      "pages-router", analysis)]

\* parsePagesRouterFile once the route path and the handler are known
PagesHandlersOf(sourceFile, rootDir, x, handler) ==
    IF handler = None THEN [handlers |-> <<>>, cache |-> x.cache]
    ELSE [handlers |->
            PagesHandlerList(detectPagesRouterMethods(handler[1], sourceFile), x.result,
                             relativePath(rootDir, sourceFile.path),
                             analyzeHandler(handler[1])),
          cache |-> x.cache]

\* parsePagesRouterFile(sourceFile): [handlers, cache]
parsePagesRouterFile(sourceFile, rootDir, cache) ==
    PagesHandlersOf(sourceFile, rootDir,
                    PagesExtractRoutePath(sourceFile.path, rootDir, cache),
                    detectPagesRouterHandler(sourceFile))

\* NextPagesParser.convertToRoutes
PagesConvertToRoutes(handlers, rootDir) ==
    [i \in 1..Len(handlers) |-> NextRouteOf(handlers[i], rootDir, "nextjs-page")]

RECURSIVE PagesScanFiles(_, _, _)
\* the loop of NextPagesParser.parseRoutes over the source files
PagesScanFiles(files, rootDir, acc) ==
    IF files = <<>> THEN acc
    ELSE PagesScanFiles(Tail(files), rootDir,
             IF Head(files).isTrpc \/ ~isPagesRouterFile(Head(files).path) THEN acc
             ELSE PushHandlers(acc, parsePagesRouterFile(Head(files), rootDir, acc.cache)))

\* the routes converted from what the scan collected
PagesRoutesOfScan(r, rootDir) ==
    [routes |-> PagesConvertToRoutes(r.handlers, rootDir), handlers |-> r.handlers, cache |-> r.cache]

\* NextPagesParser.parseRoutes: [routes, handlers, cache]
PagesParseRoutes(files, rootDir, cache) ==
    PagesRoutesOfScan(PagesScanFiles(files, rootDir, [handlers |-> <<>>, cache |-> cache]), rootDir)

\* the routes converted from what the scan collected
AppRoutesOfScan(r, rootDir) ==
    [routes |-> AppConvertToRoutes(r.handlers, rootDir), handlers |-> r.handlers, cache |-> r.cache]

\* the scan and conversion of parseNextAppRoutes: [routes, handlers, cache]
AppParseRoutes(files, rootDir, cache) ==
    AppRoutesOfScan(AppScanFiles(files, rootDir, [handlers |-> <<>>, cache |-> cache]), rootDir)

------------------------------------------------------------------------------
(* BaseParser.parse, and the file system it runs on:                      *)
(*   fs : [tsconfig, broken, files]  tsconfig.json exists under the root; *)
(*        it cannot be loaded (new Project throws); the source files      *)

sTsconfig == <<"t", "s", "c", "o", "n", "f", "i", "g", ".", "j", "s", "o", "n">>

\* BaseParser.findTsConfig: the path when fs.promises.access succeeds, else null
findTsConfig(rootDir, fs) ==
    IF fs.tsconfig THEN Some(joinPath(rootDir, sTsconfig)) ELSE None

\* the outcome of a call as its caller sees it
Outcome(routes, threw, warns, errors, project, parsed) ==
    [routes |-> routes, threw |-> threw, warns |-> warns, errors |-> errors,
     project |-> project, parsed |-> parsed]

\* catch (error) { this.logger.error(...); return []; }
CatchAll(o) ==
    IF o.threw THEN [o EXCEPT !.threw = FALSE, !.errors = @ + 1, !.routes = <<>>] ELSE o

\* the try block of BaseParser.parse; routes is what parseRoutes returns
ParseBody(rootDir, config, fs, routes) ==
    IF rootDir = <<>>
    THEN Outcome(<<>>, FALSE, 1, 0, FALSE, FALSE)
    ELSE LET tsconfigPath == findTsConfig(rootDir, fs)
         IN  IF config.requiresTsConfig /\ tsconfigPath = None
             THEN Outcome(<<>>, FALSE, 1, 0, FALSE, FALSE)
             ELSE IF tsconfigPath # None /\ fs.broken
             THEN Outcome(<<>>, TRUE, 0, 0, FALSE, FALSE)
             ELSE Outcome(routes, FALSE, 0, 0, TRUE, TRUE)

\* BaseParser.parse
parse(rootDir, config, fs, routes) == CatchAll(ParseBody(rootDir, config, fs, routes))

TrpcConfig == [name |-> "tRPC", requiresTsConfig |-> TRUE]
PagesConfig == [name |-> "Next.js Pages Router", requiresTsConfig |-> TRUE]

\* parseNextAppRoutes({rootDir}): no try block, the missing tsconfig.json is
\* reported through debug(...) only
parseNextAppRoutes(rootDir, fs, routes) ==
    IF ~fs.tsconfig
    THEN Outcome(<<>>, FALSE, 0, 0, FALSE, FALSE)
    ELSE IF fs.broken
    THEN Outcome(<<>>, TRUE, 0, 0, FALSE, FALSE)
    ELSE Outcome(routes, FALSE, 0, 0, TRUE, TRUE)

------------------------------------------------------------------------------
(* The projects the parsers are run on *)

sUserRouter == <<"u", "s", "e", "r", "R", "o", "u", "t", "e", "r">>
sAppRouter == <<"a", "p", "p", "R", "o", "u", "t", "e", "r">>
sUser == <<"u", "s", "e", "r">>
sUsers == <<"u", "s", "e", "r", "s">>
sList == <<"l", "i", "s", "t">>
sSearch == <<"s", "e", "a", "r", "c", "h">>
sPing == <<"p", "i", "n", "g">>
sQuotedCreate == <<"\"", "c", "r", "e", "a", "t", "e", "\"">>
sComputedX == <<"[", "\"", "x", "\"", "]">>
sPublicProcedure == <<"p", "u", "b", "l", "i", "c", "P", "r", "o", "c", "e", "d", "u", "r", "e">>
sProtectedProcedure == <<"p", "r", "o", "t", "e", "c", "t", "e", "d", "P", "r", "o", "c", "e", "d", "u", "r", "e">>
sRouterFile == <<"s", "e", "r", "v", "e", "r", "/", "r", "o", "u", "t", "e", "r", "s", ".", "t", "s">>
sRootDir == <<"/", "r">>
sGoneDir == <<"/", "g", "o", "n", "e">>

StringSchema == [k |-> "string"]
NumberSchema == [k |-> "number"]

\* z.object({q: z.string(), limit: z.number()})
SearchInput ==
    [a |-> "schema",
     schema |-> [k |-> "object",
                 fields |-> <<[k |-> <<"q">>, s |-> StringSchema],
                              [k |-> <<"l", "i", "m", "i", "t">>, s |-> NumberSchema]>>]]

\* z.object({name: z.string()})
CreateInput ==
    [a |-> "schema",
     schema |-> [k |-> "object", fields |-> <<[k |-> <<"n", "a", "m", "e">>, s |-> StringSchema]>>]]

Resolver == [a |-> "fn", lines |-> 1]

Ident(text) == [b |-> "ident", text |-> text]

Chain(base, links) == [e |-> "chain", base |-> base, links |-> links]

Link(name, arg) == [name |-> name, arg |-> arg]

\* publicProcedure.query(() => ...)
PlainQuery == Chain(Ident(sPublicProcedure), <<Link("query", Some(Resolver))>>)

\* publicProcedure.query()
BareQuery == Chain(Ident(sPublicProcedure), <<Link("query", None)>>)

\* publicProcedure.input(z.object({...})).query(() => ...)
InputQuery ==
    Chain(Ident(sPublicProcedure),
          <<Link("input", Some(SearchInput)), Link("query", Some(Resolver))>>)

\* protectedProcedure.input(z.object({...})).mutation(() => ...)
InputMutation ==
    Chain(Ident(sProtectedProcedure),
          <<Link("input", Some(CreateInput)), Link("mutation", Some(Resolver))>>)

Prop(nameText, init) == [kind |-> "assignment", nameText |-> nameText, init |-> Some(init)]

RouterRef(name) == [e |-> "ident", text |-> name, declIsRouter |-> TRUE]

RouterCall(name, props) == [name |-> name, arg |-> "object", props |-> props]

OneFile(routerCalls) == <<[path |-> sRouterFile, routerCalls |-> routerCalls]>>

\* const userRouter = router({ list: ..., "create": ... })
UserRouterCall == RouterCall(sUserRouter, <<Prop(sList, PlainQuery), Prop(sQuotedCreate, InputMutation)>>)

TrpcProjects ==
    { \* const appRouter = router({ search: ... })
      OneFile(<<RouterCall(sAppRouter, <<Prop(sSearch, InputQuery)>>)>>),
      \* userRouter mounted as `user` on appRouter, next to a procedure
      OneFile(<<UserRouterCall,
                RouterCall(sAppRouter, <<Prop(sUser, RouterRef(sUserRouter)),
                                         Prop(sSearch, InputQuery)>>)>>),
      \* userRouter mounted as `users`
      OneFile(<<UserRouterCall,
                RouterCall(sAppRouter, <<Prop(sUsers, RouterRef(sUserRouter))>>)>>),
      \* userRouter alone
      OneFile(<<UserRouterCall>>),
      \* a computed property name and a procedure without resolver
      OneFile(<<RouterCall(sAppRouter, <<Prop(sComputedX, PlainQuery),
                                         Prop(sPing, BareQuery)>>)>>) }

\* what can lie under a root: nothing under the empty and the missing root
FileSystems(rootDir, projects) ==
    IF rootDir = sRootDir
    THEN {[tsconfig |-> t, broken |-> b, files |-> f] :
            t \in BOOLEAN, b \in BOOLEAN, f \in projects}
    ELSE {[tsconfig |-> FALSE, broken |-> FALSE, files |-> <<>>]}

RootDirs == {<<>>, sRootDir, sGoneDir}

\* an App Router handler declaration
Handler(name, exported, init, schema) ==
    [name |-> name, exported |-> exported, init |-> init, headers |-> EmptyMap,
     queryParams |-> None, schema |-> schema]

AppFile(path, isTrpc, functions, variables, methodsExport) ==
    [path |-> path, isTrpc |-> isTrpc, functions |-> functions,
     variables |-> variables, methodsExport |-> methodsExport]

\* app/api/users/[id]/route.ts: GET, POST with a parsed body, DELETE with one
UsersRoute ==
    AppFile(<<"/", "r", "/", "a", "p", "p", "/", "a", "p", "i", "/", "u", "s", "e", "r", "s", "/", "[", "i", "d", "]", "/", "r", "o", "u", "t", "e", ".", "t", "s">>, FALSE,
            <<Handler(sGET, TRUE, "function", Some(SearchInput)),
              Handler(sPOST, TRUE, "function", Some(CreateInput))>>,
            <<Handler(sDELETE, TRUE, "arrow", Some(CreateInput))>>, None)

\* src/app/docs/[[...slug]]/route.ts: PUT, and `export const methods = ["head"]`
DocsRoute ==
    AppFile(<<"/", "r", "/", "s", "r", "c", "/", "a", "p", "p", "/", "d", "o", "c", "s", "/", "[", "[", ".", ".", ".", "s", "l", "u", "g", "]", "]", "/", "r", "o", "u", "t", "e", ".", "t", "s">>, FALSE,
            <<Handler(sPUT, TRUE, "function", Some(CreateInput))>>, <<>>,
            Some(<<<<"h", "e", "a", "d">>>>))

\* app/route.ts
RootRoute ==
    AppFile(<<"/", "r", "/", "a", "p", "p", "/", "r", "o", "u", "t", "e", ".", "t", "s">>, FALSE, <<Handler(sGET, TRUE, "function", None)>>, <<>>, None)

\* app/api/trpc/[trpc]/route.ts, the tRPC adapter
TrpcRoute ==
    AppFile(<<"/", "r", "/", "a", "p", "p", "/", "a", "p", "i", "/", "t", "r", "p", "c", "/", "[", "t", "r", "p", "c", "]", "/", "r", "o", "u", "t", "e", ".", "t", "s">>, TRUE,
            <<Handler(sGET, TRUE, "function", None)>>, <<>>, None)

AppProjects == {<<UsersRoute>>, <<UsersRoute, DocsRoute>>, <<RootRoute, TrpcRoute>>}

Access(obj, name) == [o |-> "access", obj |-> obj, name |-> name]

Literal(value) == [o |-> "literal", value |-> value]

Binary(op, left, right) == [n |-> "binary", op |-> op, left |-> left, right |-> right]

Switch(expr, clauses) == [n |-> "switch", expr |-> expr, clauses |-> clauses]

PagesHandler(kind, params, descendants, schema) ==
    [kind |-> kind, params |-> params, descendants |-> descendants,
     headers |-> EmptyMap, queryParams |-> None, schema |-> schema]

PagesFile(path, isTrpc, defaultExport, handlerExport, methodsExport) ==
    [path |-> path, isTrpc |-> isTrpc, defaultExport |-> defaultExport,
     handlerExport |-> handlerExport, methodsExport |-> methodsExport]

\* pages/api/users/[id].ts: if (req.method === "GET") ... if ("POST" == req.method)
UserPage ==
    PagesFile(<<"/", "r", "/", "p", "a", "g", "e", "s", "/", "a", "p", "i", "/", "u", "s", "e", "r", "s", "/", "[", "i", "d", "]", ".", "t", "s">>, FALSE,
              Some(PagesHandler("function", <<Some(sReq), Some(<<"r", "e", "s">>)>>,
                       <<Binary("===", Access(sReq, sMethod), Literal(sGET)),
                         Binary("==", Literal(sPOST), Access(sReq, sMethod))>>,
                       Some(CreateInput))),
              None, None)

\* pages/api/files/[...path]/index.ts: switch (r.method) { case "GET": case "DELETE": default: }
FilesPage ==
    PagesFile(<<"/", "r", "/", "p", "a", "g", "e", "s", "/", "a", "p", "i", "/", "f", "i", "l", "e", "s", "/", "[", ".", ".", ".", "p", "a", "t", "h", "]", "/", "i", "n", "d", "e", "x", ".", "t", "s">>, FALSE, None,
              Some(PagesHandler("arrow", <<Some(<<"r">>)>>,
                       <<Switch(Access(<<"r">>, sMethod),
                                <<Some(Literal(sGET)), Some(Literal(sDELETE)), None>>)>>,
                       Some(SearchInput))),
              None)

\* src/pages/api/index.ts: `export const methods = ["GET"]`, no comparison
IndexPage ==
    PagesFile(<<"/", "r", "/", "s", "r", "c", "/", "p", "a", "g", "e", "s", "/", "a", "p", "i", "/", "i", "n", "d", "e", "x", ".", "t", "s">>, FALSE,
              Some(PagesHandler("function", <<>>, <<>>, None)), None, Some(<<sGET>>))

PagesProjects == {<<UserPage>>, <<UserPage, FilesPage>>, <<IndexPage>>}

------------------------------------------------------------------------------
(* The process: one TrpcParser, one NextPagesParser, the App Router module *)

MaxRuns == 3

NoCall == [op |-> "none"]

Init ==
    /\ trpcRoot = sRootDir
    /\ routerMounts = <<>>
    /\ pagesRoot = sRootDir
    /\ pagesCache = EmptyMap
    /\ routePathCache = EmptyMap
    /\ last = NoCall
    /\ runs = 0
    /\ inp = None
    /\ out = None

\* new TrpcParser(rootDir)
NewTrpcParser(rootDir) ==
    /\ runs < MaxRuns
    /\ trpcRoot' = rootDir
    /\ routerMounts' = <<>>
    /\ last' = [op |-> "new", parser |-> "trpc"]
    /\ UNCHANGED <<pagesRoot, pagesCache, routePathCache, runs, inp, out>>

\* new NextPagesParser(rootDir)
NewPagesParser(rootDir) ==
    /\ runs < MaxRuns
    /\ pagesRoot' = rootDir
    /\ pagesCache' = EmptyMap
    /\ last' = [op |-> "new", parser |-> "pages"]
    /\ UNCHANGED <<trpcRoot, routerMounts, routePathCache, runs, inp, out>>

\* what a call leaves in `last`: its input, its outcome, the routes a parser
\* constructed for this one call returns on the same input, and the mounts or
\* cache entries the call found left by earlier ones
Call(parser, rootDir, fs, outcome, fresh, stale) ==
    [op |-> "parse", parser |-> parser, rootDir |-> rootDir, fs |-> fs,
     routes |-> outcome.routes, threw |-> outcome.threw, warns |-> outcome.warns,
     errors |-> outcome.errors, project |-> outcome.project, parsed |-> outcome.parsed,
     fresh |-> fresh, stale |-> stale]

\* the effect of TrpcParser.parse(): r is what parseRoutes computes on the
\* instance, freshRoutes what it computes on a new one
TrpcRan(fs, r, freshRoutes) ==
    /\ routerMounts' = IF parse(trpcRoot, TrpcConfig, fs, r.routes).parsed
                       THEN r.mounts ELSE routerMounts
    /\ last' = Call("trpc", trpcRoot, fs, parse(trpcRoot, TrpcConfig, fs, r.routes),
                    parse(trpcRoot, TrpcConfig, fs, freshRoutes).routes, routerMounts)

\* TrpcParser.parse() on the long-lived instance
TrpcParse(fs) ==
    /\ runs < MaxRuns
    /\ TrpcRan(fs, parseRoutes(fs.files, trpcRoot, routerMounts),
               parseRoutes(fs.files, trpcRoot, <<>>).routes)
    /\ runs' = runs + 1
    /\ UNCHANGED <<trpcRoot, pagesRoot, pagesCache, routePathCache, inp, out>>

\* the effect of NextPagesParser.parse(), r and freshRoutes as in TrpcRan
PagesRan(fs, r, freshRoutes) ==
    /\ pagesCache' = IF parse(pagesRoot, PagesConfig, fs, r.routes).parsed
                     THEN r.cache ELSE pagesCache
    /\ last' = Call("pages", pagesRoot, fs, parse(pagesRoot, PagesConfig, fs, r.routes),
                    parse(pagesRoot, PagesConfig, fs, freshRoutes).routes, pagesCache)

\* NextPagesParser.parse() on the long-lived instance
PagesParse(fs) ==
    /\ runs < MaxRuns
    /\ PagesRan(fs, PagesParseRoutes(fs.files, pagesRoot, pagesCache),
                PagesParseRoutes(fs.files, pagesRoot, EmptyMap).routes)
    /\ runs' = runs + 1
    /\ UNCHANGED <<trpcRoot, routerMounts, pagesRoot, routePathCache, inp, out>>

\* the effect of parseNextAppRoutes, r and freshRoutes as in TrpcRan
AppRan(rootDir, fs, r, freshRoutes) ==
    /\ routePathCache' = IF parseNextAppRoutes(rootDir, fs, r.routes).parsed
                         THEN r.cache ELSE routePathCache
    /\ last' = Call("app", rootDir, fs, parseNextAppRoutes(rootDir, fs, r.routes),
                    parseNextAppRoutes(rootDir, fs, freshRoutes).routes, routePathCache)

\* parseNextAppRoutes({rootDir})
AppParse(rootDir, fs) ==
    /\ runs < MaxRuns
    /\ rootDir # <<>>
    /\ AppRan(rootDir, fs, AppParseRoutes(fs.files, rootDir, routePathCache),
              AppParseRoutes(fs.files, rootDir, EmptyMap).routes)
    /\ runs' = runs + 1
    /\ UNCHANGED <<trpcRoot, routerMounts, pagesRoot, pagesCache, inp, out>>

Next ==
    \/ \E rootDir \in RootDirs : NewTrpcParser(rootDir)
    \/ \E rootDir \in RootDirs : NewPagesParser(rootDir)
    \/ \E fs \in FileSystems(trpcRoot, TrpcProjects) : TrpcParse(fs)
    \/ \E fs \in FileSystems(pagesRoot, PagesProjects) : PagesParse(fs)
    \/ \E rootDir \in RootDirs : \E fs \in FileSystems(rootDir, AppProjects) : AppParse(rootDir, fs)

Spec == Init /\ [][Next]_vars

------------------------------------------------------------------------------
(* Reading the source text of a project, independently of the parser *)

AllRouterCalls(files) ==
    UNION {{files[i].routerCalls[j] : j \in 1..Len(files[i].routerCalls)} : i \in 1..Len(files)}

PropsOf(call) == {call.props[i] : i \in 1..Len(call.props)}

IsMountProp(property) ==
    property.init # None /\ isRouterReference(property.init[1], DefaultDetection)

IsProcedureProp(property) ==
    /\ property.init # None
    /\ property.init[1].e = "chain"
    /\ \E i \in 1..Len(property.init[1].links) :
            property.init[1].links[i].name \in {"query", "mutation"}

\* the router identifiers some router of the project mounts
MountedNames(files) ==
    {property.init[1].text :
        property \in {q \in UNION {PropsOf(call) : call \in AllRouterCalls(files)} :
                        IsMountProp(q)}}

\* the routers of the project no router mounts
RootCalls(files) == {call \in AllRouterCalls(files) : call.name \notin MountedNames(files)}

\* the names of the procedures declared directly on a root router
RootProcedureNames(files) ==
    {StripQuotes(property.nameText) :
        property \in {q \in UNION {PropsOf(call) : call \in RootCalls(files)} :
                        IsProcedureProp(q)}}

RoutePaths(routes) == {routes[i].path : i \in 1..Len(routes)}

IsTrpcRun == last.op = "parse" /\ last.parser = "trpc" /\ last.parsed

\* C1: every procedure declared directly on a router without incoming mount edge
\* is emitted with path exactly "/api/trpc/<procedure>", without router prefix
C1_RootProceduresUnprefixed ==
    IsTrpcRun =>
        \A name \in RootProcedureNames(last.fs.files) :
            (sApiTrpc \o name) \in RoutePaths(last.routes)

------------------------------------------------------------------------------
(* Router composition: projects generated from a mount graph *)

MaxMounts == 3

sAdminRouter == <<"a", "d", "m", "i", "n", "R", "o", "u", "t", "e", "r">>
sPostRouter == <<"p", "o", "s", "t", "R", "o", "u", "t", "e", "r">>
sX == <<"x">>
sY == <<"y">>

ComposeRouters == {sAppRouter, sAdminRouter, sPostRouter}
ComposeLabels == <<sX, sY>>

MountChoices ==
    {[parent |-> parent, label |-> ComposeLabels[l], target |-> target] :
        parent \in ComposeRouters, l \in 1..Len(ComposeLabels),
        target \in ComposeRouters}

\* the routers reachable from a router along the edges of a mount set
RECURSIVE ReachableFrom(_, _, _)
ReachableFrom(frontier, seen, edges) ==
    LET next == {e.target : e \in {d \in edges : d.parent \in frontier}} \ seen
    IN  IF next = {} THEN seen ELSE ReachableFrom(next, seen \cup next, edges)

Acyclic(edges) == \A r \in ComposeRouters : r \notin ReachableFrom({r}, {}, edges)

\* one property name is used once in an object literal
DistinctLabels(edges) ==
    \A d, e \in edges : d.parent = e.parent /\ d.label = e.label => d = e

Orders(S) == {o \in [1..Cardinality(S) -> S] : \A i, j \in 1..Cardinality(S) : o[i] = o[j] => i = j}

Reverse(seq) == [i \in 1..Len(seq) |-> seq[Len(seq) + 1 - i]]

\* the mount properties of a router, in label order (reversed on demand)
MountProps(parent, edges, rev) ==
    LET labels == IF rev THEN Reverse(ComposeLabels) ELSE ComposeLabels
        Props(l) == IF \E e \in edges : e.parent = parent /\ e.label = labels[l]
                    THEN <<Prop(labels[l],
                                RouterRef((CHOOSE e \in edges :
                                            e.parent = parent /\ e.label = labels[l]).target))>>
                    ELSE <<>>
    IN  Props(1) \o Props(2)

\* the project of a mount graph: one router call per router, in the given
\* order, with its mounts and one procedure
ComposeProject(g) ==
    OneFile([i \in 1..Len(g.order) |->
                RouterCall(g.order[i],
                           MountProps(g.order[i], g.mounts, g.rev)
                           \o <<Prop(sPing, IF i = 1 THEN InputMutation ELSE PlainQuery)>>)])

AcyclicGraphs ==
    {[order |-> o, mounts |-> m, rev |-> r] :
        o \in Orders(ComposeRouters),
        m \in {e \in SUBSET MountChoices :
                 Cardinality(e) <= MaxMounts /\ DistinctLabels(e) /\ Acyclic(e)},
        r \in BOOLEAN}

InitCompose ==
    /\ trpcRoot = sRootDir
    /\ routerMounts = <<>>
    /\ pagesRoot = sRootDir
    /\ pagesCache = EmptyMap
    /\ routePathCache = EmptyMap
    /\ last = NoCall
    /\ runs = 0
    /\ inp \in {Some(g) : g \in AcyclicGraphs}
    /\ out = None

\* what parseRoutes leaves: its result, and the mounts on the instance
Composed(r) ==
    /\ out' = Some(r)
    /\ routerMounts' = r.mounts

\* TrpcParser.parseRoutes on the project of the graph
Compose ==
    /\ out = None
    /\ Composed(parseRoutes(ComposeProject(inp[1]), trpcRoot, routerMounts))
    /\ UNCHANGED <<trpcRoot, pagesRoot, pagesCache, routePathCache, last, runs, inp>>

NextCompose == Compose

SpecCompose == InitCompose /\ [][NextCompose]_vars

RECURSIVE SourceMounts(_)
\* the mounts written in a sequence of router calls, in source order
SourceMounts(calls) ==
    IF calls = <<>> THEN <<>>
    ELSE LET call == Head(calls)
             mountProps == SelectSeq(call.props, IsMountProp)
         IN  [i \in 1..Len(mountProps) |->
                [parent |-> call.name,
                 label |-> StripQuotes(mountProps[i].nameText),
                 target |-> mountProps[i].init[1].text]]
             \o SourceMounts(Tail(calls))

IsMounted(name, edges) == \E i \in 1..Len(edges) : edges[i].target = name

RECURSIVE ChainPath(_, _)
\* the labels along the chain of first incoming edges, joined by dots
ChainPath(name, edges) ==
    LET into == SelectSeq(edges, LAMBDA e : e.target = name)
    IN  IF into = <<>> THEN <<>>
        ELSE LET above == ChainPath(into[1].parent, edges)
             IN  IF above = <<>> THEN into[1].label
                 ELSE above \o sDot \o into[1].label

ComposeCalls == ComposeProject(inp[1])[1].routerCalls

\* C2: on an acyclic mount graph every mounted router resolves to the dot-joined
\* mount labels along its chain of first incoming edges, and its procedure is
\* emitted at "/api/trpc/<resolved path>.<procedure>"
C2_MountedRoutersFollowLabelChain ==
    out # None =>
        LET edges == SourceMounts(ComposeCalls)
        IN  \A i \in 1..Len(ComposeCalls) :
                IsMounted(ComposeCalls[i].name, edges) =>
                    LET chain == ChainPath(ComposeCalls[i].name, edges)
                    IN  /\ out[1].pathMap[out[1].declared[i].name] = chain
                        /\ out[1].routes[i].path = sApiTrpc \o chain \o sDot \o sPing

\* a router mounted twice, one of its mounts two levels below the root
C2_Witness ==
    /\ out # None
    /\ LET edges == SourceMounts(ComposeCalls)
       IN  \E i \in 1..Len(ComposeCalls) :
            /\ Len(SelectSeq(edges, LAMBDA e : e.target = ComposeCalls[i].name)) = 2
            /\ Includes(ChainPath(ComposeCalls[i].name, edges), sDot)
            /\ out[1].routes[i].path =
                    sApiTrpc \o ChainPath(ComposeCalls[i].name, edges) \o sDot \o sPing

------------------------------------------------------------------------------
(* The routes of a parse invocation *)

IsRun == last.op = "parse" /\ last.parsed

WellFormedPath(path) ==
    /\ StartsWith(path, sSlash)
    /\ ~Includes(path, <<"/", "/">>)
    /\ \A i \in 1..Len(path) : path[i] \notin {"[", "]"}

\* C3: every route of the three parsers has a path that begins with "/", has
\* no "//" run and no bracket character, whatever the file path or the
\* property name (quoted and computed names included)
C3_PathsWellFormed ==
    IsRun => \A i \in 1..Len(last.routes) : WellFormedPath(last.routes[i].path)

------------------------------------------------------------------------------
(* Emission: one procedure or one handler, parsed and converted *)

\* the fields an input schema is built from:
\*   q: z.string(), limit: z.number().default(25), flag: z.boolean(),
\*   filter: z.object({q: z.string()}), tags: z.array(z.string()),
\*   cursor: z.string().nullable().default(null)
FieldPool ==
    <<[k |-> <<"q">>, s |-> StringSchema],
      [k |-> <<"l", "i", "m", "i", "t">>, s |-> [k |-> "default", v |-> JNum(25)]],
      [k |-> <<"f", "l", "a", "g">>, s |-> [k |-> "boolean"]],
      [k |-> <<"f", "i", "l", "t", "e", "r">>, s |-> [k |-> "object",
                                fields |-> <<[k |-> <<"q">>, s |-> StringSchema]>>]],
      [k |-> <<"t", "a", "g", "s">>, s |-> [k |-> "array", inner |-> StringSchema]],
      [k |-> <<"c", "u", "r", "s", "o", "r">>, s |-> [k |-> "default", v |-> JNull]]>>

\* the fields of the pool at the positions of I, in pool order
FieldsAt(I) ==
    LET F[i \in 0..Len(FieldPool)] ==
            IF i = 0 THEN <<>>
            ELSE IF i \in I THEN Append(F[i - 1], FieldPool[i]) ELSE F[i - 1]
    IN  F[Len(FieldPool)]

InputSchemas ==
    {[k |-> "object", fields |-> FieldsAt(I)] : I \in SUBSET (1..Len(FieldPool))}
    \cup {StringSchema, [k |-> "array", inner |-> StringSchema], [k |-> "unknown"]}

\* base.input(schema).query(resolver), with or without input and resolver
ProcedureExpressions ==
    {Chain(Ident(sPublicProcedure),
           (IF schema = None THEN <<>>
            ELSE <<Link("input", Some([a |-> "schema", schema |-> schema[1]]))>>)
           \o <<Link(method, resolver)>>) :
        schema \in {None} \cup {Some(x) : x \in InputSchemas},
        method \in {"query", "mutation"},
        resolver \in {None, Some(Resolver)}}

sRouteFile == <<"/", "r", "/", "a", "p", "p", "/", "a", "p", "i", "/", "i", "t", "e", "m", "s", "/", "r", "o", "u", "t", "e", ".", "t", "s">>
sPageFile == <<"/", "r", "/", "p", "a", "g", "e", "s", "/", "a", "p", "i", "/", "i", "t", "e", "m", "s", ".", "t", "s">>

MaxNodes == 2

sRes == <<"r", "e", "s">>
sUrl == <<"u", "r", "l">>
sFoo == <<"F", "O", "O">>
sR == <<"r">>

\* the comparisons and switch statements found in the body of a handler
NodePool ==
    {Binary("===", Access(sReq, sMethod), Literal(sGET)),
     Binary("==", Literal(sPOST), Access(sReq, sMethod)),
     Binary("===", Access(sR, sMethod), Literal(sPUT)),
     Binary("==", Access(sRequest, sMethod), Literal(sDELETE)),
     Binary("!==", Access(sReq, sMethod), Literal(sPATCH)),
     Binary("===", Access(sRes, sMethod), Literal(sHEAD)),
     Binary("===", Access(sReq, sUrl), Literal(sOPTIONS)),
     Binary("===", Access(sReq, sMethod), Literal(sFoo)),
     Binary("===", Access(sReq, sMethod), [o |-> "other"]),
     Switch(Access(sReq, sMethod), <<Some(Literal(sGET)), Some(Literal(sOPTIONS)), None>>),
     Switch(Access(sRes, sMethod), <<Some(Literal(sPUT))>>),
     Switch(Access(sR, sMethod), <<Some(Literal(sPATCH)), Some(Literal(sFoo))>>)}

NodeSequences == UNION {[1..n -> NodePool] : n \in 0..MaxNodes}

\* where the handler of the file is: `export default function (req, res)`,
\* `export default (r) => ...`, `export default handler` (an export
\* assignment), `export function handler(req)`, or nowhere
HandlerPlaces(descendants) ==
    {[defaultExport |-> Some(PagesHandler("function", <<Some(sReq), Some(sRes)>>,
                                          descendants, None)),
      handlerExport |-> None],
     [defaultExport |-> Some(PagesHandler("arrow", <<Some(sR)>>, descendants, None)),
      handlerExport |-> None],
     [defaultExport |-> Some(PagesHandler("other", <<>>, <<>>, None)),
      handlerExport |-> None],
     [defaultExport |-> None,
      handlerExport |-> Some(PagesHandler("function", <<Some(sReq)>>, descendants, None))],
     [defaultExport |-> None, handlerExport |-> None]}

\* Pages Router files over the handlers, with and without a methods array
MethodFiles ==
    {PagesFile(sPageFile, FALSE, place.defaultExport, place.handlerExport, methods) :
        place \in UNION {HandlerPlaces(d) : d \in NodeSequences},
        methods \in {None, Some(<<sHEAD, sGET>>)}}

\* the exported and unexported function declarations of an App Router file
FunctionPool ==
    {<<>>, <<Handler(sGET, TRUE, "function", None)>>,
     <<Handler(sPOST, FALSE, "function", None)>>}

\* its variable declarations: bound to an arrow function, a function
\* expression or something else (`export const PUT = 42`), exported or not,
\* named by a verb or not
VariablePool ==
    {Handler(sGET, TRUE, "arrow", None), Handler(sPOST, TRUE, "function", None),
     Handler(sPUT, TRUE, "other", None), Handler(sDELETE, TRUE, "other", None),
     Handler(sPATCH, FALSE, "arrow", None), Handler(sFoo, TRUE, "arrow", None)}

VariableSequences ==
    {v \in UNION {[1..n -> VariablePool] : n \in 0..MaxNodes} :
        \A i, j \in 1..Len(v) : v[i].name = v[j].name => i = j}

\* App Router files over the declarations, with and without
\* `export const methods = ["get", "HEAD", "GET", "put"]`
DeclarationFiles ==
    {AppFile(sRouteFile, FALSE, functions, variables, methods) :
        functions \in FunctionPool, variables \in VariableSequences,
        methods \in {None, Some(<<<<"g", "e", "t">>, sHEAD, sGET, <<"p", "u", "t">>>>)}}

EmitInputs ==
    {[kind |-> "app", file |-> f] : f \in DeclarationFiles} \cup
    {[kind |-> "pages", file |-> f] : f \in MethodFiles} \cup
    {[kind |-> "trpc", expression |-> e] : e \in ProcedureExpressions}
    \cup {[kind |-> "app",
           file |-> AppFile(sRouteFile, FALSE,
                            <<Handler(NEXTJS_HTTP_METHODS[m], TRUE, "function", schema)>>,
                            <<>>, None)] :
            m \in 1..Len(NEXTJS_HTTP_METHODS), schema \in {None, Some(CreateInput)}}
    \cup {[kind |-> "pages",
           file |-> PagesFile(sPageFile, FALSE,
                              Some(PagesHandler("function", <<Some(sReq)>>,
                                       <<Binary("===", Access(sReq, sMethod),
                                                Literal(NEXTJS_HTTP_METHODS[m]))>>,
                                       schema)),
                              None, None)] :
            m \in 1..Len(NEXTJS_HTTP_METHODS), schema \in {None, Some(CreateInput)}}

InitEmit ==
    /\ trpcRoot = sRootDir
    /\ routerMounts = <<>>
    /\ pagesRoot = sRootDir
    /\ pagesCache = EmptyMap
    /\ routePathCache = EmptyMap
    /\ last = NoCall
    /\ runs = 0
    /\ inp \in {Some(x) : x \in EmitInputs}
    /\ out = None

\* what the App Router scan leaves: handlers, routes, and the module's cache
AppScanned(r) ==
    /\ out' = Some([nodes |-> r.handlers, routes |-> r.routes])
    /\ routePathCache' = r.cache

\* what the Pages Router scan leaves: handlers, routes, and the instance's cache
PagesScanned(r) ==
    /\ out' = Some([nodes |-> r.handlers, routes |-> r.routes])
    /\ pagesCache' = r.cache

\* the node of a procedure (none when it has no method) and its routes
TrpcEmitted(node) ==
    out' = Some([nodes |-> node, routes |-> TrpcConvertToRoutes(node, trpcRoot)])

\* parseProcedure, then TrpcParser.convertToRoutes
EmitTrpc ==
    /\ out = None
    /\ inp[1].kind = "trpc"
    /\ TrpcEmitted(parseProcedure(inp[1].expression, sList, sUser, sRouterFile))
    /\ UNCHANGED <<trpcRoot, routerMounts, pagesRoot, pagesCache, routePathCache,
                   last, runs, inp>>

\* parseAppRouterFile, then convertToRoutes
EmitApp ==
    /\ out = None
    /\ inp[1].kind = "app"
    /\ AppScanned(AppRoutesOfScan(parseAppRouterFile(inp[1].file, sRootDir, routePathCache),
                                  sRootDir))
    /\ UNCHANGED <<trpcRoot, routerMounts, pagesRoot, pagesCache, last, runs, inp>>

\* parsePagesRouterFile, then NextPagesParser.convertToRoutes
EmitPages ==
    /\ out = None
    /\ inp[1].kind = "pages"
    /\ PagesScanned(PagesRoutesOfScan(parsePagesRouterFile(inp[1].file, pagesRoot, pagesCache),
                                      pagesRoot))
    /\ UNCHANGED <<trpcRoot, routerMounts, pagesRoot, routePathCache, last, runs, inp>>

NextEmit == EmitTrpc \/ EmitApp \/ EmitPages

SpecEmit == InitEmit /\ [][NextEmit]_vars

Emitted(kind) == out # None /\ inp[1].kind = kind

\* the method call that ends a procedure expression
MethodLink(expression) == expression.links[Len(expression.links)]

\* C4: no route whose method is GET or HEAD (or OPTIONS or DELETE) carries a
\* body, in the tRPC converter and in both Next converters, also when a body
\* example was inferred for the handler
C4_NoBodyOnBodylessMethods ==
    out # None =>
        \A i \in 1..Len(out[1].routes) :
            out[1].routes[i].method \in {sGET, sHEAD, sOPTIONS, sDELETE}
                => out[1].routes[i].body = None

\* a GET route emitted without the body example inferred for its handler
C4_Witness ==
    /\ out # None
    /\ \E i \in 1..Len(out[1].routes) :
        /\ out[1].routes[i].method = sGET
        /\ out[1].nodes[i].bodyExample # None
        /\ out[1].routes[i].body = None

\* C5: every tRPC route has a path starting with "/api/trpc/", method GET for a
\* query and POST for a mutation, and headers["Content-Type"] equal to
\* "application/json", with or without a captured resolver
C5_TrpcRouteShape ==
    Emitted("trpc") =>
        /\ Len(out[1].routes) = 1
        /\ LET route == out[1].routes[1]
           IN  /\ StartsWith(route.path, sApiTrpc)
               /\ route.method = IF MethodLink(inp[1].expression).name = "query"
                                 THEN sGET ELSE sPOST
               /\ route.headers # None
               /\ "Content-Type" \in DOMAIN route.headers[1]
               /\ route.headers[1]["Content-Type"] = "application/json"

\* a mutation written without resolver function, emitted as a POST route
C5_Witness ==
    /\ Emitted("trpc")
    /\ MethodLink(inp[1].expression) = Link("mutation", None)
    /\ Len(out[1].routes) = 1
    /\ out[1].routes[1].method = sPOST

IsPrimitive(value) == value.t \notin {"obj", "arr"}

sNull == <<"n", "u", "l", "l">>

\* the entries of the primitive-valued keys, in order, each with the string
\* form of its value; nullForm is the string a null value is given
PrimitiveEntries(es, nullForm) ==
    LET kept == SelectSeq(es, LAMBDA entry : IsPrimitive(entry.v))
    IN  [i \in 1..Len(kept) |->
            [k |-> kept[i].k,
             v |-> IF kept[i].v.t = "null" THEN nullForm ELSE StringOf(kept[i].v)]]

\* the query of a GET route whose procedure has the body example `example`
ProjectedQuery(example, nullForm) ==
    IF example.doc # "json" \/ example.v.t # "obj" THEN None
    ELSE LET entries == PrimitiveEntries(example.v.es, nullForm)
         IN  IF entries = <<>> THEN None ELSE Some(entries)

QueryAndBodyAre(nullForm) ==
    Emitted("trpc") =>
        LET node == out[1].nodes[1]
            route == out[1].routes[1]
        IN  IF route.method = sGET
            THEN /\ route.body = None
                 /\ node.bodyExample # None
                        => route.query = ProjectedQuery(node.bodyExample[1], nullForm)
            ELSE /\ route.body = node.bodyExample
                 /\ route.query = None

\* C6 as stated: for a tRPC query with a body example the query holds exactly
\* the primitive-valued top-level keys, each with the string form of its value
\* (String(null) is "null"), object- and array-valued keys are dropped, the
\* query is omitted when nothing survives or the example is not an object, and
\* the body is absent; a mutation carries the example as body and no query
C6_QueryProjection_Original == QueryAndBodyAre(sNull)

\* C6 as amended: the same, with a null-valued key kept as the empty string
C6_QueryProjection == QueryAndBodyAre(<<>>)

\* a query whose example has a string, a null and an object value: the query
\* keeps the first two, the null as "", and drops the third
C6_Witness ==
    /\ Emitted("trpc")
    /\ out[1].routes[1].method = sGET
    /\ out[1].nodes[1].bodyExample # None
    /\ out[1].nodes[1].bodyExample[1].v.t = "obj"
    /\ {out[1].nodes[1].bodyExample[1].v.es[i].v.t :
            i \in 1..Len(out[1].nodes[1].bodyExample[1].v.es)} = {"str", "null", "obj"}
    /\ out[1].routes[1].query # None
    /\ Len(out[1].routes[1].query[1]) = 2
    /\ \E i \in 1..2 : out[1].routes[1].query[1][i].v = <<>>

------------------------------------------------------------------------------
(* Route paths of Next.js files: a file path built from directory names *)

MaxSegments == 3

\* directory names: static, [x], [...x] and [[...x]]
SegmentPool == {<<"a", "p", "i">>, <<"[", "i", "d", "]">>, <<"[", ".", ".", ".", "s", "l", "u", "g", "]">>, <<"[", "[", ".", ".", ".", "r", "e", "s", "t", "]", "]">>, <<"[", "p", "o", "s", "t", "I", "d", "]">>, <<"b", "l", "o", "g">>}

AppPrefixes == {<<"a", "p", "p">>, <<"s", "r", "c", "/", "a", "p", "p">>, <<"a", "p", "p", "s", "/", "w", "e", "b", "/", "a", "p", "p">>}
AppLeaves == {<<"r", "o", "u", "t", "e", ".", "t", "s">>, <<"r", "o", "u", "t", "e", ".", "j", "s">>}
PagesPrefixes == {<<"p", "a", "g", "e", "s", "/", "a", "p", "i">>, <<"s", "r", "c", "/", "p", "a", "g", "e", "s", "/", "a", "p", "i">>}
PagesLeaves == {<<"i", "n", "d", "e", "x", ".", "t", "s">>, <<"[", "i", "d", "]", ".", "t", "s">>, <<"i", "t", "e", "m", "s", ".", "j", "s">>, <<"[", ".", ".", ".", "s", "l", "u", "g", "]", ".", "t", "s">>}

Directories == UNION {[1..n -> SegmentPool] : n \in 0..MaxSegments}

\* root/prefix/dir1/.../dirN/leaf
FilePath(prefix, dirs, leaf) ==
    sRootDir \o sSlash \o JoinWith(<<prefix>> \o dirs \o <<leaf>>, sSlash)

NextFiles ==
    {[kind |-> "app",
      file |-> AppFile(FilePath(prefix, dirs, leaf), FALSE,
                       <<Handler(sGET, TRUE, "function", None)>>, <<>>, None)] :
        prefix \in AppPrefixes, dirs \in Directories, leaf \in AppLeaves}
    \cup
    {[kind |-> "pages",
      file |-> PagesFile(FilePath(prefix, dirs, leaf), FALSE,
                         Some(PagesHandler("function", <<>>, <<>>, None)), None,
                         Some(<<sGET>>))] :
        prefix \in PagesPrefixes, dirs \in Directories, leaf \in PagesLeaves}

InitNext ==
    /\ trpcRoot = sRootDir
    /\ routerMounts = <<>>
    /\ pagesRoot = sRootDir
    /\ pagesCache = EmptyMap
    /\ routePathCache = EmptyMap
    /\ last = NoCall
    /\ runs = 0
    /\ inp \in {Some(x) : x \in NextFiles}
    /\ out = None

\* the App Router scan of parseNextAppRoutes on the file
DetectApp ==
    /\ out = None
    /\ inp[1].kind = "app"
    /\ AppScanned(AppParseRoutes(<<inp[1].file>>, sRootDir, routePathCache))
    /\ UNCHANGED <<trpcRoot, routerMounts, pagesRoot, pagesCache, last, runs, inp>>

\* NextPagesParser.parseRoutes on the file
DetectPages ==
    /\ out = None
    /\ inp[1].kind = "pages"
    /\ PagesScanned(PagesParseRoutes(<<inp[1].file>>, pagesRoot, pagesCache))
    /\ UNCHANGED <<trpcRoot, routerMounts, pagesRoot, routePathCache, last, runs, inp>>

NextNext == DetectApp \/ DetectPages

SpecNext == InitNext /\ [][NextNext]_vars

\* the name a path part has once its extension is dropped
Stem(part) == IF EndsWith(part, sDotTs) \/ EndsWith(part, sDotJs) THEN DropLast(part, 3) ELSE part

\* the directory and file names of the file below the root, the leaf without
\* extension, and without the leaf when it is `route` (App) or `index` (Pages)
FileParts(x) ==
    LET parts == SplitOn(relativePath(sRootDir, x.file.path), "/")
        leaf == Stem(parts[Len(parts)])
        dirs == SubSeq(parts, 1, Len(parts) - 1)
    IN  IF (x.kind = "app" /\ leaf = <<"r", "o", "u", "t", "e">>)
           \/ (x.kind = "pages" /\ leaf = <<"i", "n", "d", "e", "x">>)
        THEN dirs ELSE Append(dirs, leaf)

\* [x] -> :x, [...x] -> :x*, [[...x]] -> :x?, as the claim states it
ClaimedForm(part) ==
    IF StartsWith(part, <<"[", "[", ".", ".", ".">>)
    THEN <<":">> \o SubSeq(part, 6, Len(part) - 2) \o <<"?">>
    ELSE IF StartsWith(part, <<"[", ".", ".", ".">>)
    THEN <<":">> \o SubSeq(part, 5, Len(part) - 1) \o <<"*">>
    ELSE <<":">> \o SubSeq(part, 2, Len(part) - 1)

ClaimedName(part) ==
    IF StartsWith(part, <<"[", "[", ".", ".", ".">>) THEN SubSeq(part, 6, Len(part) - 2)
    ELSE IF StartsWith(part, <<"[", ".", ".", ".">>) THEN SubSeq(part, 5, Len(part) - 1)
    ELSE SubSeq(part, 2, Len(part) - 1)

\* the positions of the parts of a sequence that satisfy Test, in order
PositionsWhere(parts, Test(_)) ==
    LET F[i \in 0..Len(parts)] ==
            IF i = 0 THEN <<>>
            ELSE IF Test(parts[i]) THEN Append(F[i - 1], i) ELSE F[i - 1]
    IN  F[Len(parts)]

IsBracketed(part) == part # <<>> /\ part[1] = "["

IsColon(part) == part # <<>> /\ part[1] = ":"

\* the dynamic parts of a sequence of path parts, each with its converted form
\* and its distance from the end
Placed(parts, Test(_), Form(_)) ==
    LET at == PositionsWhere(parts, Test)
    IN  [i \in 1..Len(at) |->
            [form |-> Form(parts[at[i]]), fromEnd |-> Len(parts) - at[i]]]

Same(part) == part

\* C7: every bracketed segment of a Next.js route file path appears in the
\* emitted path exactly once, at the same position and in source order,
\* converted as [x] -> :x, [...x] -> :x*, [[...x]] -> :x?, and the extracted
\* segment names are in the order of the segments
C7_DynamicSegmentsConvertedOnce ==
    out # None =>
        /\ Len(out[1].routes) = 1
        /\ LET parts == FileParts(inp[1])
               brackets == PositionsWhere(parts, IsBracketed)
           IN  /\ Placed(SplitOn(out[1].routes[1].path, "/"), IsColon, Same)
                    = Placed(parts, IsBracketed, ClaimedForm)
               /\ out[1].nodes[1].dynamicSegments
                    = [i \in 1..Len(brackets) |-> ClaimedName(parts[brackets[i]])]
               /\ \A i \in 1..Len(out[1].routes[1].path) :
                    out[1].routes[1].path[i] \notin {"[", "]"}

\* a file with the three kinds of dynamic segment, in a path that has them all
C7_Witness ==
    /\ out # None
    /\ LET parts == FileParts(inp[1])
       IN  /\ \E i, j, k \in 1..Len(parts) :
                /\ i < j /\ j < k
                /\ StartsWith(parts[i], <<"[", ".", ".", ".">>)
                /\ StartsWith(parts[j], <<"[", "[", ".", ".", ".">>)
                /\ IsBracketed(parts[k]) /\ parts[k][2] # "[" /\ parts[k][2] # "."
           /\ Len(out[1].nodes[1].dynamicSegments) = 3
           /\ Len(Placed(SplitOn(out[1].routes[1].path, "/"), IsColon, Same)) = 3

\* C8: a parse invocation returns the routes a parser constructed for this one
\* call returns on the same files: mount edges collected by an earlier run of
\* the same TrpcParser and entries left in a route-path cache change nothing
C8_RepeatedRunsAgree == IsRun => last.routes = last.fresh

\* a TrpcParser run that starts with the mounts an earlier run left
C8_Witness ==
    /\ IsRun
    /\ last.parser = "trpc"
    /\ last.stale # <<>>
    /\ last.routes # <<>>

\* a Next.js run that finds the path of one of its files in the cache
C8_CacheHit ==
    /\ IsRun
    /\ last.parser \in {"app", "pages"}
    /\ last.routes # <<>>
    /\ \E i \in 1..Len(last.fs.files) :
            MapHas(last.stale, CacheKey(last.rootDir, last.fs.files[i].path))

\* C9: with an empty root, or a root without tsconfig.json, the call returns
\* no route, reports exactly one warn-level message, constructs no project,
\* does not reach parseRoutes, and raises nothing
C9_MissingConfigWarnsOnce ==
    (last.op = "parse" /\ (last.rootDir = <<>> \/ ~last.fs.tsconfig)) =>
        /\ last.routes = <<>>
        /\ last.warns = 1
        /\ ~last.project
        /\ ~last.parsed
        /\ ~last.threw

\* C10: BaseParser.parse on a root directory that does not exist ends with an
\* exception, not with an empty route list
C10_MissingRootRaises ==
    (last.op = "parse" /\ last.parser \in {"trpc", "pages"} /\ last.rootDir = sGoneDir)
        => last.threw

------------------------------------------------------------------------------
(* A source file whose analysis raises (the compiler API throws on it).   *)
(* None of the three scan loops has a try block of its own:               *)
(* TrpcParser.parseRoutes and NextPagesParser.parseRoutes run inside the  *)
(* try of BaseParser.parse, the loop of parseNextAppRoutes inside none.   *)

\* analysing the file raises
Raises(file) == "raises" \in DOMAIN file /\ file.raises

\* the file, malformed so that its analysis raises
Malformed(file) ==
    [f \in DOMAIN file \cup {"raises"} |-> IF f = "raises" THEN TRUE ELSE file[f]]

\* the files each loop analyses: every file (tRPC), the route files that are
\* not tRPC adapters (Next.js)
TrpcAnalysed(file) == TRUE
AppAnalysed(file) == ~file.isTrpc /\ isAppRouterFile(file.path)
PagesAnalysed(file) == ~file.isTrpc /\ isPagesRouterFile(file.path)

\* the loop of the parser of the kind analyses the file
Analysed(kind, file) ==
    CASE kind = "trpc" -> TrpcAnalysed(file)
      [] kind = "app" -> AppAnalysed(file)
      [] kind = "pages" -> PagesAnalysed(file)

\* the loop reaches a file whose analysis raises
ScanRaises(files, kind) ==
    \E i \in 1..Len(files) : Analysed(kind, files[i]) /\ Raises(files[i])

\* the files the loop has gone through when the analysis of one raises
BeforeRaise(files, kind) ==
    IF ~ScanRaises(files, kind) THEN files
    ELSE SubSeq(files, 1,
                (CHOOSE i \in 1..Len(files) :
                    /\ Analysed(kind, files[i]) /\ Raises(files[i])
                    /\ \A j \in 1..(i - 1) : ~(Analysed(kind, files[j]) /\ Raises(files[j]))) - 1)

\* the try block of BaseParser.parse when parseRoutes may raise: o is the
\* outcome of the block if it does not
RaisedIn(o, raised) ==
    IF o.parsed /\ raised THEN [o EXCEPT !.threw = TRUE, !.routes = <<>>] ELSE o

\* BaseParser.parse over files whose analysis may raise
parseOrRaise(rootDir, config, fs, routes, raised) ==
    CatchAll(RaisedIn(ParseBody(rootDir, config, fs, routes), raised))

\* parseNextAppRoutes over files whose analysis may raise: nothing catches
parseNextAppRoutesOrRaise(rootDir, fs, routes, raised) ==
    RaisedIn(parseNextAppRoutes(rootDir, fs, routes), raised)

sPostsFile == <<"s", "e", "r", "v", "e", "r", "/", "p", "o", "s", "t", "s", ".", "t", "s">>

\* server/posts.ts: const postRouter = router({ ping: ... })
PostsFile ==
    [path |-> sPostsFile,
     routerCalls |-> <<RouterCall(sPostRouter, <<Prop(sPing, PlainQuery)>>)>>]

sAppFile == <<"s", "e", "r", "v", "e", "r", "/", "a", "p", "p", ".", "t", "s">>
sPost == <<"p", "o", "s", "t">>

\* server/app.ts: const appRouter = router({ user: userRouter, search: ...,
\* post: postRouter })
AppRouterFile ==
    [path |-> sAppFile,
     routerCalls |-> <<RouterCall(sAppRouter, <<Prop(sUser, RouterRef(sUserRouter)),
                                                Prop(sSearch, InputQuery),
                                                Prop(sPost, RouterRef(sPostRouter))>>)>>]

ScanFilePool(kind) ==
    CASE kind = "trpc" -> {OneFile(<<UserRouterCall>>)[1], PostsFile, AppRouterFile}
      [] kind = "app" -> {UsersRoute, DocsRoute, RootRoute}
      [] kind = "pages" -> {UserPage, FilesPage, IndexPage}

MaxFiles == 2

\* the projects of a kind: up to MaxFiles distinct files in any order, each
\* well-formed or malformed
ScanFiles(kind) == ScanFilePool(kind) \cup {Malformed(f) : f \in ScanFilePool(kind)}

ScanSequences(kind) == UNION {[1..n -> ScanFiles(kind)] : n \in 1..MaxFiles}

ScanProjects(kind) ==
    {p \in ScanSequences(kind) : \A i, j \in 1..Len(p) : p[i].path = p[j].path => i = j}

ScanInputs ==
    UNION {{[kind |-> k, files |-> p] : p \in ScanProjects(k)} : k \in {"trpc", "app", "pages"}}

\* the file system of a project with its tsconfig.json in place
Loaded(files) == [tsconfig |-> TRUE, broken |-> FALSE, files |-> files]

InitScan ==
    /\ trpcRoot = sRootDir
    /\ routerMounts = <<>>
    /\ pagesRoot = sRootDir
    /\ pagesCache = EmptyMap
    /\ routePathCache = EmptyMap
    /\ last = NoCall
    /\ runs = 0
    /\ inp \in {Some(x) : x \in ScanInputs}
    /\ out = None

\* TrpcParser.parse() on the project
ScanTrpc ==
    /\ out = None
    /\ inp[1].kind = "trpc"
    /\ out' = Some(parseOrRaise(trpcRoot, TrpcConfig, Loaded(inp[1].files),
                                parseRoutes(inp[1].files, trpcRoot, routerMounts).routes,
                                ScanRaises(inp[1].files, "trpc")))
    /\ routerMounts' = parseRoutes(BeforeRaise(inp[1].files, "trpc"),
                                   trpcRoot, routerMounts).mounts
    /\ UNCHANGED <<trpcRoot, pagesRoot, pagesCache, routePathCache, last, runs, inp>>

\* NextPagesParser.parse() on the project
ScanPages ==
    /\ out = None
    /\ inp[1].kind = "pages"
    /\ out' = Some(parseOrRaise(pagesRoot, PagesConfig, Loaded(inp[1].files),
                                PagesParseRoutes(inp[1].files, pagesRoot, pagesCache).routes,
                                ScanRaises(inp[1].files, "pages")))
    /\ pagesCache' = PagesParseRoutes(BeforeRaise(inp[1].files, "pages"),
                                      pagesRoot, pagesCache).cache
    /\ UNCHANGED <<trpcRoot, routerMounts, pagesRoot, routePathCache, last, runs, inp>>

\* parseNextAppRoutes({rootDir}) on the project
ScanApp ==
    /\ out = None
    /\ inp[1].kind = "app"
    /\ out' = Some(parseNextAppRoutesOrRaise(sRootDir, Loaded(inp[1].files),
                        AppParseRoutes(inp[1].files, sRootDir, routePathCache).routes,
                        ScanRaises(inp[1].files, "app")))
    /\ routePathCache' = AppParseRoutes(BeforeRaise(inp[1].files, "app"),
                                        sRootDir, routePathCache).cache
    /\ UNCHANGED <<trpcRoot, routerMounts, pagesRoot, pagesCache, last, runs, inp>>

NextScan == ScanTrpc \/ ScanPages \/ ScanApp

SpecScan == InitScan /\ [][NextScan]_vars

\* the routes a parser of the kind emits for the file alone
RoutesAlone(kind, file) ==
    CASE kind = "trpc" -> parseRoutes(<<file>>, sRootDir, <<>>).routes
      [] kind = "app" -> AppParseRoutes(<<file>>, sRootDir, EmptyMap).routes
      [] kind = "pages" -> PagesParseRoutes(<<file>>, sRootDir, EmptyMap).routes

\* the route is among the routes of the sequence
Emits(routes, route) == \E i \in 1..Len(routes) : routes[i] = route

\* the routes of the file are all emitted
FileEmitted(kind, file, routes) ==
    \A i \in 1..Len(RoutesAlone(kind, file)) : Emits(routes, RoutesAlone(kind, file)[i])

\* C11: when the analysis of one source file raises, the routes of every
\* other file of the same invocation are still emitted, in all three parsers
C11_OnlyFailingFileSkipped ==
    out # None =>
        \A i \in 1..Len(inp[1].files) :
            ~Raises(inp[1].files[i]) => FileEmitted(inp[1].kind, inp[1].files[i], out[1].routes)

------------------------------------------------------------------------------
(* The URL pattern of a Next.js route file, stated from its location *)

\* the parts of the file below [src/]pages or [src/]app
PartsBelow(x, dir) ==
    IF FileParts(x)[1] = <<"s", "r", "c">> /\ Len(FileParts(x)) > 1 /\ FileParts(x)[2] = dir
    THEN SubSeq(FileParts(x), 3, Len(FileParts(x)))
    ELSE IF FileParts(x)[1] = dir THEN SubSeq(FileParts(x), 2, Len(FileParts(x)))
    ELSE FileParts(x)

\* the file lies at <root>/[src/]<dir>/...
LiesUnder(x, dir) ==
    \/ FileParts(x)[1] = dir
    \/ (FileParts(x)[1] = <<"s", "r", "c">> /\ Len(FileParts(x)) > 1 /\ FileParts(x)[2] = dir)

\* "/" and the parts joined by "/", bracketed parts in their converted form
PatternOf(parts) ==
    sSlash \o JoinWith([i \in 1..Len(parts) |->
                            IF IsBracketed(parts[i]) THEN ClaimedForm(parts[i]) ELSE parts[i]],
                       sSlash)

\* C12: the path emitted for the Pages Router file <root>/[src/]pages/api/<p>
\* is /api/<p> without the extension and without a trailing /index, its
\* dynamic segments converted
C12_PagesPathFromLocation ==
    (out # None /\ inp[1].kind = "pages" /\ LiesUnder(inp[1], <<"p", "a", "g", "e", "s">>)) =>
        /\ Len(out[1].routes) = 1
        /\ out[1].routes[1].path = PatternOf(PartsBelow(inp[1], <<"p", "a", "g", "e", "s">>))
        /\ StartsWith(out[1].routes[1].path, <<"/", "a", "p", "i">>)

\* pages/api/blog/[...slug].ts is emitted as /api/blog/:slug*
C12_Witness ==
    /\ out # None
    /\ inp[1].kind = "pages"
    /\ inp[1].file.path = <<"/", "r", "/", "p", "a", "g", "e", "s", "/", "a", "p", "i", "/", "b", "l", "o", "g", "/", "[", ".", ".", ".", "s", "l", "u", "g", "]", ".", "t", "s">>
    /\ out[1].routes[1].path = <<"/", "a", "p", "i", "/", "b", "l", "o", "g", "/", ":", "s", "l", "u", "g", "*">>

\* src/pages/api/index.ts is emitted as /api
C12_IndexWitness ==
    /\ out # None
    /\ inp[1].kind = "pages"
    /\ inp[1].file.path = <<"/", "r", "/", "s", "r", "c", "/", "p", "a", "g", "e", "s", "/", "a", "p", "i", "/", "i", "n", "d", "e", "x", ".", "t", "s">>
    /\ out[1].routes[1].path = <<"/", "a", "p", "i">>

\* C13: the path emitted for the App Router file <root>/[src/]app/<p>/route.ts
\* (or .js) is /<p>, its dynamic segments converted, and / when <p> is empty
C13_AppPathFromLocation ==
    (out # None /\ inp[1].kind = "app" /\ LiesUnder(inp[1], <<"a", "p", "p">>)) =>
        /\ Len(out[1].routes) = 1
        /\ out[1].routes[1].path = PatternOf(PartsBelow(inp[1], <<"a", "p", "p">>))
        /\ (PartsBelow(inp[1], <<"a", "p", "p">>) = <<>> => out[1].routes[1].path = sSlash)

\* src/app/blog/[id]/route.js is emitted as /blog/:id
C13_Witness ==
    /\ out # None
    /\ inp[1].kind = "app"
    /\ inp[1].file.path = <<"/", "r", "/", "s", "r", "c", "/", "a", "p", "p", "/", "b", "l", "o", "g", "/", "[", "i", "d", "]", "/", "r", "o", "u", "t", "e", ".", "j", "s">>
    /\ out[1].routes[1].path = <<"/", "b", "l", "o", "g", "/", ":", "i", "d">>

\* app/route.ts is emitted as /
C13_RootWitness ==
    /\ out # None
    /\ inp[1].kind = "app"
    /\ inp[1].file.path = <<"/", "r", "/", "a", "p", "p", "/", "r", "o", "u", "t", "e", ".", "t", "s">>
    /\ out[1].routes[1].path = sSlash

------------------------------------------------------------------------------
(* The order of the emitted routes, stated from the source *)

\* the concatenation of the sequences of a sequence
Flatten(seqs) ==
    LET F[i \in 0..Len(seqs)] == IF i = 0 THEN <<>> ELSE F[i - 1] \o seqs[i]
    IN  F[Len(seqs)]

\* the elements of a sequence, each at its first occurrence only
FirstOccurrences(seq) ==
    Flatten([i \in 1..Len(seq) |->
                IF \E j \in 1..(i - 1) : seq[j] = seq[i] THEN <<>> ELSE <<seq[i]>>])

\* the method literal a node spells, as a sequence of zero or one verb
VerbOf(node) ==
    IF node.o = "literal" /\ ToUpperCase(node.value) \in
            {NEXTJS_HTTP_METHODS[m] : m \in 1..Len(NEXTJS_HTTP_METHODS)}
    THEN <<ToUpperCase(node.value)>> ELSE <<>>

\* <req>.method for one of the names
IsMethodOf(node, names) == node.o = "access" /\ node.name = sMethod /\ node.obj \in names

\* the verbs a descendant of a Pages handler contributes, as claimed: the
\* literal compared with == or === to <req>.method, the literals of the case
\* labels of switch (<req>.method)
VerbsAt(node, names) ==
    IF node.n = "binary"
    THEN IF node.op \notin {"===", "=="} THEN <<>>
         ELSE IF IsMethodOf(node.left, names) /\ VerbOf(node.right) # <<>> THEN VerbOf(node.right)
         ELSE IF IsMethodOf(node.right, names) THEN VerbOf(node.left)
         ELSE <<>>
    ELSE IF node.n = "switch" /\ IsMethodOf(node.expr, names)
    THEN Flatten([i \in 1..Len(node.clauses) |->
                    IF node.clauses[i] = None THEN <<>> ELSE VerbOf(node.clauses[i][1])])
    ELSE <<>>

\* req, request and the first parameter of the handler function
RequestNames(handler) ==
    {sReq, sRequest} \cup
    (IF handler.kind \in {"function", "arrow"} /\ Len(handler.params) > 0
        /\ handler.params[1] # None
     THEN {handler.params[1][1]} ELSE {})

\* the verbs of `export const methods = [...]`
ExportedVerbs(file) ==
    IF file.methodsExport = None THEN <<>>
    ELSE Flatten([i \in 1..Len(file.methodsExport[1]) |->
                    VerbOf([o |-> "literal", value |-> file.methodsExport[1][i]])])

\* the handler of a Pages Router file: the default export, else `handler`
PagesEntry(file) ==
    IF file.defaultExport # None THEN file.defaultExport ELSE file.handlerExport

\* the verbs of a Pages Router file in the order they are met
PagesVerbs(file) ==
    IF file.isTrpc \/ PagesEntry(file) = None THEN <<>>
    ELSE FirstOccurrences(
            ExportedVerbs(file)
            \o Flatten([i \in 1..Len(PagesEntry(file)[1].descendants) |->
                          VerbsAt(PagesEntry(file)[1].descendants[i],
                                  RequestNames(PagesEntry(file)[1]))]))

\* the verbs of an App Router file in the order they are met: exported
\* functions, exported function-valued variables, the methods array
AppVerbs(file) ==
    IF file.isTrpc THEN <<>>
    ELSE FirstOccurrences(
            Flatten([i \in 1..Len(file.functions) |->
                        IF file.functions[i].exported
                        THEN VerbOf([o |-> "literal", value |-> file.functions[i].name])
                        ELSE <<>>])
            \o Flatten([i \in 1..Len(file.variables) |->
                        IF file.variables[i].exported
                           /\ file.variables[i].name = ToUpperCase(file.variables[i].name)
                        THEN VerbOf([o |-> "literal", value |-> file.variables[i].name])
                        ELSE <<>>])
            \o ExportedVerbs(file))

\* the procedures of a tRPC file in source order: router calls, then properties
TrpcProcedures(file) ==
    Flatten([c \in 1..Len(file.routerCalls) |->
        Flatten([p \in 1..Len(file.routerCalls[c].props) |->
            IF IsProcedureProp(file.routerCalls[c].props[p])
            THEN <<StripQuotes(file.routerCalls[c].props[p].nameText)>> ELSE <<>>])])

\* the absolute path of a file of the project
AbsoluteFile(file) ==
    IF StartsWith(file.path, sRootDir \o sSlash) THEN file.path
    ELSE sRootDir \o sSlash \o file.path

\* what is discovered in a file, in order: [file, what], what being the
\* procedure name (tRPC) or the verb (Next.js)
Discovered(kind, file) ==
    [i \in 1..Len(CASE kind = "trpc" -> TrpcProcedures(file)
                    [] kind = "app" -> AppVerbs(file)
                    [] kind = "pages" -> PagesVerbs(file)) |->
        [file |-> AbsoluteFile(file),
         what |-> (CASE kind = "trpc" -> TrpcProcedures(file)
                     [] kind = "app" -> AppVerbs(file)
                     [] kind = "pages" -> PagesVerbs(file))[i]]]

\* the part of a path after its last dot
AfterLastDot(path) ==
    IF \E i \in 1..Len(path) : path[i] = "."
    THEN SubSeq(path, 1 + (CHOOSE i \in 1..Len(path) :
                              path[i] = "." /\ \A j \in (i + 1)..Len(path) : path[j] # "."),
                Len(path))
    ELSE path

\* what each route stands for: [file, what]
Emission(kind, routes) ==
    [i \in 1..Len(routes) |->
        [file |-> routes[i].filePath,
         what |-> IF kind = "trpc" THEN AfterLastDot(routes[i].path) ELSE routes[i].method]]

\* no file of the project is malformed
WellFormed(files) == \A i \in 1..Len(files) : ~Raises(files[i])

\* C14: the routes of an invocation stand, one for one and in order, for what
\* is discovered in the files in enumeration order and within a file in
\* discovery order; composition and conversion reorder, drop and repeat nothing
C14_RoutesInDiscoveryOrder ==
    (out # None /\ WellFormed(inp[1].files)) =>
        Emission(inp[1].kind, out[1].routes)
            = Flatten([i \in 1..Len(inp[1].files) |-> Discovered(inp[1].kind, inp[1].files[i])])

\* two files with several procedures, one mounting the router of the other
C14_Witness ==
    /\ out # None
    /\ inp[1].kind = "trpc"
    /\ WellFormed(inp[1].files)
    /\ Len(inp[1].files) = 2
    /\ routerMounts # <<>>
    /\ Len(out[1].routes) = 3

\* two App Router files with several handlers each
C14_AppWitness ==
    /\ out # None
    /\ inp[1].kind = "app"
    /\ WellFormed(inp[1].files)
    /\ Len(inp[1].files) = 2
    /\ Len(out[1].routes) = 5

------------------------------------------------------------------------------
(* The methods of a Pages Router file *)

\* the set of the elements of a sequence
Range(seq) == {seq[i] : i \in 1..Len(seq)}

C15_OtherOperatorWitness ==
    /\ out # None
    /\ inp[1].kind = "pages"
    /\ inp[1].file.methodsExport = None
    /\ inp[1].file.defaultExport # None
    /\ inp[1].file.defaultExport[1].descendants
            = <<Binary("!==", Access(sReq, sMethod), Literal(sPATCH))>>
    /\ out[1].routes = <<>>

------------------------------------------------------------------------------
(* State kept between invocations *)

\* C16: no invocation of a Next.js parser finds in the route-path cache an
\* entry written by an earlier invocation, of the same or of another parser
\* instance
C16_NoStateAcrossInvocations ==
    (last.op = "parse" /\ last.parser \in {"app", "pages"}) => DOMAIN last.stale = {}

\* the same for parseNextAppRoutes alone, whose cache belongs to the module
C16_AppCacheSurvives ==
    /\ last.op = "parse"
    /\ last.parser = "app"
    /\ DOMAIN last.stale # {}

------------------------------------------------------------------------------
(* Router-path resolution on mount graphs with cycles *)

\* the mount graphs over the routers, cyclic ones and self-mounts included
MountGraphs ==
    {[order |-> o, mounts |-> m, rev |-> r] :
        o \in Orders(ComposeRouters),
        m \in {e \in SUBSET MountChoices : Cardinality(e) <= MaxMounts /\ DistinctLabels(e)},
        r \in BOOLEAN}

InitCycle ==
    /\ trpcRoot = sRootDir
    /\ routerMounts = <<>>
    /\ pagesRoot = sRootDir
    /\ pagesCache = EmptyMap
    /\ routePathCache = EmptyMap
    /\ last = NoCall
    /\ runs = 0
    /\ inp \in {Some(g) : g \in MountGraphs}
    /\ out = None

\* what parseRoutes leaves, with the maps of the resolver on its return; x is
\* what the scan of the files collected
Resolved(x) ==
    /\ out' = Some([routes |-> RoutesOfExtraction(x, trpcRoot).routes,
                    declared |-> x.routers,
                    mounts |-> x.mounts,
                    resolver |-> resolveRouterPathsState(x.routers, x.mounts)])
    /\ routerMounts' = x.mounts

\* TrpcParser.parseRoutes on the project of the graph
ResolveGraph ==
    /\ out = None
    /\ Resolved(extractProcedures(ComposeProject(inp[1]), DefaultDetection,
                                  [nodes |-> <<>>, routers |-> <<>>,
                                   mounts |-> ResetMounts(routerMounts)]))
    /\ UNCHANGED <<trpcRoot, pagesRoot, pagesCache, routePathCache, last, runs, inp>>

NextCycle == ResolveGraph

SpecCycle == InitCycle /\ [][NextCycle]_vars

\* the graph has a cycle through the router
OnCycle(r, edges) == r \in ReachableFrom({r}, {}, edges)

\* C17: resolution returns on every mount graph, cyclic or not, with an entry
\* for every declared router in the resolved map and nothing left in progress
C17_ResolutionCompletes ==
    out # None =>
        /\ \A i \in 1..Len(out[1].declared) :
                MapHas(out[1].resolver.resolved, out[1].declared[i].name)
        /\ out[1].resolver.resolving = {}

\* two routers that mount each other
C17_Witness ==
    /\ out # None
    /\ \E d, e \in inp[1].mounts :
            d.parent = e.target /\ e.parent = d.target /\ d.parent # d.target
    /\ out[1].resolver.resolving = {}

\* a router that mounts itself
C17_SelfMountWitness ==
    /\ out # None
    /\ \E e \in inp[1].mounts : e.parent = e.target
    /\ out[1].resolver.resolving = {}

\* a cycle through the three routers
C17_LongCycleWitness ==
    /\ out # None
    /\ Cardinality({e.parent : e \in inp[1].mounts}) = 3
    /\ \A r \in ComposeRouters : OnCycle(r, inp[1].mounts)
    /\ out[1].resolver.resolving = {}

\* the call finds the router in progress and not yet resolved
MeetsCycle(call) == call.name \in call.inProgress /\ ~MapHas(call.before, call.name)

\* C18: a call of resolve for a router that is still being resolved returns
\* the router's own name, makes no further call and leaves the resolved map
\* as it found it; a path once assigned to a router is never changed
C18_CycleEntryReturnsOwnName ==
    out # None =>
        /\ \A k \in 1..Len(out[1].resolver.log) :
                MeetsCycle(out[1].resolver.log[k]) =>
                    /\ out[1].resolver.log[k].ret = out[1].resolver.log[k].name
                    /\ out[1].resolver.log[k].calls = 0
                    /\ out[1].resolver.log[k].after = out[1].resolver.log[k].before
        /\ \A k \in 1..Len(out[1].resolver.log) :
                \A n \in DOMAIN out[1].resolver.log[k].before :
                    /\ MapHas(out[1].resolver.log[k].after, n)
                    /\ out[1].resolver.log[k].after[n] = out[1].resolver.log[k].before[n]
                    /\ out[1].resolver.resolved[n] = out[1].resolver.log[k].before[n]

\* a call that met a router in progress, on a cycle of two or more routers
C18_Witness ==
    /\ out # None
    /\ \E k \in 1..Len(out[1].resolver.log) :
            /\ MeetsCycle(out[1].resolver.log[k])
            /\ Cardinality(out[1].resolver.log[k].inProgress) >= 2

\* the mounts written in the source that name the router, in source order
MountsInto(name) == SelectSeq(SourceMounts(ComposeCalls), LAMBDA e : e.target = name)

\* the name the declared routers give to the router of a call site
DeclaredName(callName) ==
    out[1].declared[CHOOSE j \in 1..Len(ComposeCalls) : ComposeCalls[j].name = callName].name

\* a label below the path of a parent
Below(parentPath, label) ==
    IF parentPath = <<>> THEN label ELSE parentPath \o sDot \o label

\* the call of resolve that assigned the path of the router
Assigns(call, name) == call.name = name /\ call.after # call.before

\* C19: the path of a router that several mounts name is built from the
\* first of them in source order: resolve descends into that mount's parent
\* and puts that mount's label below what the parent's call returned
C19_FirstRecordedEdgeWins ==
    out # None =>
        \A i \in 1..Len(ComposeCalls) :
            MountsInto(ComposeCalls[i].name) # <<>> =>
                \A k \in 1..Len(out[1].resolver.log) :
                    Assigns(out[1].resolver.log[k], out[1].declared[i].name) =>
                        /\ k > 1
                        /\ out[1].resolver.log[k - 1].name =
                                DeclaredName(MountsInto(ComposeCalls[i].name)[1].parent)
                        /\ out[1].resolver.log[k].ret =
                                Below(out[1].resolver.log[k - 1].ret,
                                      MountsInto(ComposeCalls[i].name)[1].label)
                        /\ out[1].resolver.resolved[out[1].declared[i].name] =
                                out[1].resolver.log[k].ret

\* a router named by two mounts of different parents, the later one of which
\* would have given another path
C19_Witness ==
    /\ out # None
    /\ \E i \in 1..Len(ComposeCalls) :
            /\ Len(MountsInto(ComposeCalls[i].name)) >= 2
            /\ MountsInto(ComposeCalls[i].name)[1].parent #
                    MountsInto(ComposeCalls[i].name)[2].parent
            /\ MapHas(out[1].resolver.resolved,
                      DeclaredName(MountsInto(ComposeCalls[i].name)[2].parent))
            /\ out[1].resolver.resolved[out[1].declared[i].name] #
                    Below(out[1].resolver.resolved[
                              DeclaredName(MountsInto(ComposeCalls[i].name)[2].parent)],
                          MountsInto(ComposeCalls[i].name)[2].label)
            /\ out[1].resolver.resolved[out[1].declared[i].name] =
                    Below(out[1].resolver.resolved[
                              DeclaredName(MountsInto(ComposeCalls[i].name)[1].parent)],
                          MountsInto(ComposeCalls[i].name)[1].label)

------------------------------------------------------------------------------
(* Loading the source files of the glob patterns.  A pattern is the glob, *)
(* the files it matches, whether project.addSourceFilesAtPaths throws on  *)
(* it, and how many of its files the project holds when it does.          *)

InProject(project, file) == \E i \in 1..Len(project) : project[i].path = file.path

\* project.addSourceFilesAtPaths(fullPattern): the files the call adds
\* before it returns or throws; a project holds a file once
addSourceFilesAtPaths(project, pattern) ==
    project \o SelectSeq(SubSeq(pattern.files, 1, pattern.added),
                         LAMBDA f : ~InProject(project, f))

\* the debug line of the pattern
PatternLine(pattern) == [glob |-> pattern.glob, failed |-> pattern.fails]

RECURSIVE addSourceFilesAborting(_, _)
\* the loop left at the first pattern that fails
addSourceFilesAborting(patterns, st) ==
    IF patterns = <<>> THEN st
    ELSE IF Head(patterns).fails
    THEN [project |-> st.project, debug |-> Append(st.debug, PatternLine(Head(patterns)))]
    ELSE addSourceFilesAborting(Tail(patterns),
             [project |-> addSourceFilesAtPaths(st.project, Head(patterns)),
              debug |-> Append(st.debug, PatternLine(Head(patterns)))])

RECURSIVE addSourceFiles(_, _)
\* the loop over the patterns, each in a try block of its own whose catch
\* writes a debug line: [project, debug]
addSourceFiles(patterns, st) ==
    IF patterns = <<>> THEN st
    ELSE addSourceFiles(Tail(patterns),
             [project |-> addSourceFilesAtPaths(st.project, Head(patterns)),
              debug |-> Append(st.debug, PatternLine(Head(patterns)))])

\* a new Project whose tsconfig.json includes no file
EmptyProject == [project |-> <<>>, debug |-> <<>>]

MaxPatterns == 2

\* the patterns over the files of a kind: each matches one file and is added,
\* or throws before or after the file went into the project
PatternPool(kind) ==
    {[glob |-> f.path, files |-> <<f>>, fails |-> FALSE, added |-> 1] : f \in ScanFilePool(kind)}
    \cup {[glob |-> f.path, files |-> <<f>>, fails |-> TRUE, added |-> n] :
            f \in ScanFilePool(kind), n \in {0, 1}}

PatternLists(kind) == UNION {[1..n -> PatternPool(kind)] : n \in 1..MaxPatterns}

LoadInputs ==
    UNION {{[kind |-> k, patterns |-> p] : p \in PatternLists(k)} : k \in {"trpc", "app", "pages"}}

InitLoad ==
    /\ trpcRoot = sRootDir
    /\ routerMounts = <<>>
    /\ pagesRoot = sRootDir
    /\ pagesCache = EmptyMap
    /\ routePathCache = EmptyMap
    /\ last = NoCall
    /\ runs = 0
    /\ inp \in {Some(x) : x \in LoadInputs}
    /\ out = None

\* the call as its caller sees it, with the project and the debug lines of
\* the loading
Seen(o, st) ==
    [routes |-> o.routes, threw |-> o.threw, warns |-> o.warns, errors |-> o.errors,
     parsed |-> o.parsed, project |-> st.project, debug |-> st.debug]

TrpcLoaded(st) ==
    /\ out' = Some(Seen(parse(trpcRoot, TrpcConfig, Loaded(st.project),
                              parseRoutes(st.project, trpcRoot, routerMounts).routes), st))
    /\ routerMounts' = parseRoutes(st.project, trpcRoot, routerMounts).mounts

PagesLoaded(st) ==
    /\ out' = Some(Seen(parse(pagesRoot, PagesConfig, Loaded(st.project),
                              PagesParseRoutes(st.project, pagesRoot, pagesCache).routes), st))
    /\ pagesCache' = PagesParseRoutes(st.project, pagesRoot, pagesCache).cache

AppLoaded(st) ==
    /\ out' = Some(Seen(parseNextAppRoutes(sRootDir, Loaded(st.project),
                              AppParseRoutes(st.project, sRootDir, routePathCache).routes), st))
    /\ routePathCache' = AppParseRoutes(st.project, sRootDir, routePathCache).cache

\* TrpcParser.parse() with the patterns as config.filePatterns
LoadTrpc ==
    /\ out = None
    /\ inp[1].kind = "trpc"
    /\ TrpcLoaded(addSourceFiles(inp[1].patterns, EmptyProject))
    /\ UNCHANGED <<trpcRoot, pagesRoot, pagesCache, routePathCache, last, runs, inp>>

\* NextPagesParser.parse() with the patterns as config.filePatterns
LoadPages ==
    /\ out = None
    /\ inp[1].kind = "pages"
    /\ PagesLoaded(addSourceFiles(inp[1].patterns, EmptyProject))
    /\ UNCHANGED <<trpcRoot, routerMounts, pagesRoot, routePathCache, last, runs, inp>>

\* parseNextAppRoutes({rootDir, include}) with the patterns as include
LoadApp ==
    /\ out = None
    /\ inp[1].kind = "app"
    /\ AppLoaded(addSourceFiles(inp[1].patterns, EmptyProject))
    /\ UNCHANGED <<trpcRoot, routerMounts, pagesRoot, pagesCache, last, runs, inp>>

NextLoad == LoadTrpc \/ LoadPages \/ LoadApp

SpecLoad == InitLoad /\ [][NextLoad]_vars

\* C20: a pattern whose files cannot be added leaves one debug line and
\* nothing else: no warning, no error, no exception; every other pattern is
\* still gone through, its files are in the project, and the routes of those
\* files are emitted
C20_FailingPatternOnlyDebugLogged ==
    out # None =>
        /\ out[1].parsed /\ ~out[1].threw
        /\ out[1].warns = 0 /\ out[1].errors = 0
        /\ Len(out[1].debug) = Len(inp[1].patterns)
        /\ \A i \in 1..Len(inp[1].patterns) :
                /\ out[1].debug[i] = [glob |-> inp[1].patterns[i].glob,
                                      failed |-> inp[1].patterns[i].fails]
                /\ ~inp[1].patterns[i].fails =>
                        /\ InProject(out[1].project, inp[1].patterns[i].files[1])
                        /\ FileEmitted(inp[1].kind, inp[1].patterns[i].files[1],
                                       out[1].routes)

\* a pattern that fails before a pattern of another file whose routes are
\* emitted
C20_Witness ==
    /\ out # None
    /\ Len(inp[1].patterns) = 2
    /\ inp[1].patterns[1].fails /\ inp[1].patterns[1].added = 0
    /\ ~inp[1].patterns[2].fails
    /\ inp[1].patterns[2].glob # inp[1].patterns[1].glob
    /\ out[1].routes # <<>>
    /\ out[1].routes = RoutesAlone(inp[1].kind, inp[1].patterns[2].files[1])

\* a pattern that fails after a pattern whose files stay in the project
C20_EarlierFilesKeptWitness ==
    /\ out # None
    /\ Len(inp[1].patterns) = 2
    /\ ~inp[1].patterns[1].fails
    /\ inp[1].patterns[2].fails
    /\ out[1].routes # <<>>
    /\ FileEmitted(inp[1].kind, inp[1].patterns[1].files[1], out[1].routes)

------------------------------------------------------------------------------
(* The exports of an App Router file *)

\* the routes carry the method
HasRoute(routes, method) == \E i \in 1..Len(routes) : routes[i].method = method

\* the file exports a function declaration of the name
ExportsFunction(file, name) ==
    \E i \in 1..Len(file.functions) :
        file.functions[i].exported /\ file.functions[i].name = name

\* the methods array of the file names the verb
MethodsArrayNames(file, name) ==
    file.methodsExport # None /\
    \E i \in 1..Len(file.methodsExport[1]) : ToUpperCase(file.methodsExport[1][i]) = name

\* the exported variable of the file named by a verb and bound to neither an
\* arrow function nor a function expression, the verb exported in no other way
BoundToOther(file, i) ==
    /\ file.variables[i].exported
    /\ IsHttpMethod(file.variables[i].name)
    /\ file.variables[i].init \notin {"arrow", "function"}
    /\ ~ExportsFunction(file, file.variables[i].name)
    /\ ~MethodsArrayNames(file, file.variables[i].name)

\* C21: an exported variable named by an HTTP verb and bound to an expression
\* that is neither an arrow function nor a function expression yields no
\* route of its verb
C21_OnlyFunctionVariablesAreHandlers ==
    Emitted("app") =>
        \A i \in 1..Len(inp[1].file.variables) :
            BoundToOther(inp[1].file, i) =>
                ~HasRoute(out[1].routes, inp[1].file.variables[i].name)

------------------------------------------------------------------------------
(* One source file of a workspace seen by both Next.js parsers *)

\* a file with an exported GET function, `export const methods = ["POST"]`,
\* and a default export that tests req.method === "GET"
WorkspaceFile(path, isTrpc) ==
    [path |-> path, isTrpc |-> isTrpc,
     functions |-> <<Handler(sGET, TRUE, "function", None)>>,
     variables |-> <<>>,
     methodsExport |-> Some(<<sPOST>>),
     defaultExport |-> Some(PagesHandler("function", <<Some(sReq)>>,
                               <<Binary("===", Access(sReq, sMethod), Literal(sGET))>>,
                               None)),
     handlerExport |-> None]

\* where the file lies below the root: under app or pages/api, under both,
\* in a route group, in the admin catch-all of a CMS
WorkspacePrefixes ==
    {<<"a", "p", "p">>, <<"s", "r", "c", "/", "a", "p", "p">>, <<"p", "a", "g", "e", "s", "/", "a", "p", "i">>, <<"s", "r", "c", "/", "p", "a", "g", "e", "s", "/", "a", "p", "i">>, <<"a", "p", "p", "s", "/", "w", "e", "b", "/", "a", "p", "p">>,
     <<"a", "p", "p", "/", "p", "a", "g", "e", "s", "/", "a", "p", "i">>, <<"p", "a", "g", "e", "s", "/", "a", "p", "i", "/", "a", "p", "p">>, <<"a", "p", "p", "/", "(", "a", "d", "m", "i", "n", ")">>, <<"a", "p", "p", "/", "a", "p", "i", "/", "(", "v", "1", ")">>,
     <<"a", "p", "p", "/", "(", "p", "a", "y", "l", "o", "a", "d", ")", "/", "a", "d", "m", "i", "n", "/", "[", "[", ".", ".", ".", "s", "e", "g", "m", "e", "n", "t", "s", "]", "]">>}

WorkspaceDirectories == {<<>>, <<<<"u", "s", "e", "r", "s">>>>, <<<<"[", "i", "d", "]">>>>}

WorkspaceLeaves == {<<"r", "o", "u", "t", "e", ".", "t", "s">>, <<"r", "o", "u", "t", "e", ".", "j", "s">>, <<"i", "n", "d", "e", "x", ".", "t", "s">>, <<"i", "t", "e", "m", "s", ".", "t", "s">>, <<"[", "i", "d", "]", ".", "j", "s">>}

WorkspaceFiles ==
    {WorkspaceFile(FilePath(prefix, dirs, leaf), isTrpc) :
        prefix \in WorkspacePrefixes, dirs \in WorkspaceDirectories,
        leaf \in WorkspaceLeaves, isTrpc \in BOOLEAN}

NotRun == [app |-> None, pages |-> None]

InitWorkspace ==
    /\ trpcRoot = sRootDir
    /\ routerMounts = <<>>
    /\ pagesRoot = sRootDir
    /\ pagesCache = EmptyMap
    /\ routePathCache = EmptyMap
    /\ last = NoCall
    /\ runs = 0
    /\ inp \in {Some(f) : f \in WorkspaceFiles}
    /\ out = NotRun

\* the routes and the cache parseNextAppRoutes leaves; r is what the scan
\* and the conversion give
AppFinished(r) ==
    /\ out' = [out EXCEPT !.app = Some(parseNextAppRoutes(sRootDir, Loaded(<<inp[1]>>),
                                                          r.routes).routes)]
    /\ routePathCache' = r.cache

\* the routes and the cache NextPagesParser.parse leaves
PagesFinished(r) ==
    /\ out' = [out EXCEPT !.pages = Some(parse(pagesRoot, PagesConfig, Loaded(<<inp[1]>>),
                                               r.routes).routes)]
    /\ pagesCache' = r.cache

\* parseNextAppRoutes({rootDir}) on the workspace
WorkspaceApp ==
    /\ out.app = None
    /\ AppFinished(AppParseRoutes(<<inp[1]>>, sRootDir, routePathCache))
    /\ UNCHANGED <<trpcRoot, routerMounts, pagesRoot, pagesCache, last, runs, inp>>

\* new NextPagesParser(rootDir).parse() on the workspace
WorkspacePages ==
    /\ out.pages = None
    /\ PagesFinished(PagesParseRoutes(<<inp[1]>>, pagesRoot, pagesCache))
    /\ UNCHANGED <<trpcRoot, routerMounts, pagesRoot, routePathCache, last, runs, inp>>

NextWorkspace == WorkspaceApp \/ WorkspacePages

SpecWorkspace == InitWorkspace /\ [][NextWorkspace]_vars

\* a directory name in parentheses
IsRouteGroup(part) == Len(part) >= 2 /\ part[1] = "(" /\ part[Len(part)] = ")"

\* the file lies in a route group
InRouteGroup(path) ==
    \E i \in 1..Len(SplitOn(path, "/")) : IsRouteGroup(SplitOn(path, "/")[i])

\* C22: the App Router parser emits no route for a file that is a tRPC
\* adapter or that lies in a parenthesized route-group directory
C22_AdaptersAndRouteGroupsSkipped ==
    (out.app # None /\ (inp[1].isTrpc \/ InRouteGroup(inp[1].path))) => out.app[1] = <<>>

\* the tRPC adapters alone: they are skipped
C22_AdaptersSkipped ==
    (out.app # None /\ inp[1].isTrpc) => out.app[1] = <<>>

\* C23: no file passes both the App Router and the Pages Router file test,
\* and the two parsers, run in either order on one workspace, never both emit
\* routes for the file
C23_ParsersScanDisjointFiles ==
    /\ ~(isAppRouterFile(inp[1].path) /\ isPagesRouterFile(inp[1].path))
    /\ (out.app # None /\ out.pages # None) => (out.app[1] = <<>> \/ out.pages[1] = <<>>)

\* a route file that lies under app and under pages/api: both parsers ran,
\* the App Router parser emitted its routes and the Pages Router parser none
C23_Witness ==
    /\ out.app # None /\ out.pages # None
    /\ Includes(inp[1].path, sAppDir) /\ Includes(inp[1].path, sPagesApiDir)
    /\ EndsWith(inp[1].path, sRouteTs)
    /\ out.app[1] # <<>>
    /\ out.pages[1] = <<>>

\* a file under both directories that is not a route file: the Pages Router
\* parser alone emits routes
C23_PagesOnlyWitness ==
    /\ out.app # None /\ out.pages # None
    /\ Includes(inp[1].path, sAppDir) /\ Includes(inp[1].path, sPagesApiDir)
    /\ out.app[1] = <<>>
    /\ out.pages[1] # <<>>

\* the directory the parser of the kind strips
StrippedDirectory(kind) == IF kind = "app" THEN sApp ELSE sPages

\* C28: the emitted path is the location of the file with app or pages
\* removed only where it is the whole first directory name (after an
\* optional src/); a first directory that only begins with those letters,
\* as in apps/web/app/api/route.ts, is left whole
C28_PrefixStrippedAsWholeSegment ==
    out # None =>
        \A i \in 1..Len(out[1].routes) :
            out[1].routes[i].path =
                PatternOf(PartsBelow(inp[1], StrippedDirectory(inp[1].kind)))

------------------------------------------------------------------------------
(* The properties of one router call *)

MaxProps == 3

PropertyNames == <<<<"a", "l", "p", "h", "a">>, <<"b", "e", "t", "a">>, <<"g", "a", "m", "m", "a">>, <<"d", "e", "l", "t", "a">>, <<"o", "m", "e", "g", "a">>>>

\* router({ ping: publicProcedure.query(() => ...) }) written in place
InlineRouter ==
    [e |-> "factoryCall", text |-> <<"r", "o", "u", "t", "e", "r", "(", "{", ".", ".", ".", "}", ")">>,
     props |-> <<Prop(sPing, PlainQuery)>>]

\* what a property is bound to: a router by name, a router written in
\* place, an identifier that is no router, procedures, and builder chains
\* that name no method
InitializerPool ==
    {RouterRef(sUserRouter),
     InlineRouter,
     [e |-> "ident", text |-> <<"h", "e", "l", "p", "e", "r">>, declIsRouter |-> FALSE],
     PlainQuery,
     InputMutation,
     Chain(Ident(sPublicProcedure), <<Link("meta", None), Link("query", Some(Resolver))>>),
     Chain(Ident(sPublicProcedure), <<Link("input", Some(SearchInput))>>),
     Chain(Ident(sPublicProcedure),
           <<Link("input", Some(CreateInput)), Link("output", Some(CreateInput))>>)}

\* the properties at a position of the object literal: an assignment, a
\* shorthand without initializer, a spread, a method
PropertiesAt(i) ==
    {[kind |-> "assignment", nameText |-> PropertyNames[i], init |-> Some(init)] :
        init \in InitializerPool}
    \cup {[kind |-> "shorthand", nameText |-> PropertyNames[i], init |-> None],
          [kind |-> "spread", nameText |-> <<>>, init |-> None],
          [kind |-> "method", nameText |-> PropertyNames[i], init |-> Some(PlainQuery)]}

RECURSIVE PropertyListsOf(_)
\* the object literals of n properties
PropertyListsOf(n) ==
    IF n = 0 THEN {<<>>}
    ELSE {Append(p, x) : p \in PropertyListsOf(n - 1), x \in PropertiesAt(n)}

PropertyLists == UNION {PropertyListsOf(n) : n \in 0..MaxProps}

\* the factory calls: router({...}) over the properties, and router(routes),
\* router() over those of one property
RouterCalls ==
    {[name |-> sAppRouter, arg |-> "object", props |-> p] : p \in PropertyLists}
    \cup {[name |-> sAppRouter, arg |-> a, props |-> p] :
            a \in {"other", "none"}, p \in {q \in PropertyLists : Len(q) <= 1}}

InitRouter ==
    /\ trpcRoot = sRootDir
    /\ routerMounts = <<>>
    /\ pagesRoot = sRootDir
    /\ pagesCache = EmptyMap
    /\ routePathCache = EmptyMap
    /\ last = NoCall
    /\ runs = 0
    /\ inp \in {Some(c) : c \in RouterCalls}
    /\ out = None

\* what parseRoutes leaves of the file; x is what the scan collected
RouterParsed(x) ==
    /\ out' = Some([nodes |-> x.nodes, routers |-> x.routers, mounts |-> x.mounts,
                    routes |-> RoutesOfExtraction(x, trpcRoot).routes])
    /\ routerMounts' = x.mounts

\* TrpcParser.parseRoutes on a file with the one factory call
ParseRouterFile ==
    /\ out = None
    /\ RouterParsed(extractProcedures(OneFile(<<inp[1]>>), DefaultDetection,
                                      [nodes |-> <<>>, routers |-> <<>>,
                                       mounts |-> ResetMounts(routerMounts)]))
    /\ UNCHANGED <<trpcRoot, pagesRoot, pagesCache, routePathCache, last, runs, inp>>

NextRouter == ParseRouterFile

SpecRouter == InitRouter /\ [][NextRouter]_vars

\* the property has a name and a value
IsAssigned(property) == property.kind \in {"assignment", "shorthand"} /\ property.init # None

\* the property is bound to a router reference
IsMount(property) == IsAssigned(property) /\ IsMountProp(property)

\* the chain has a .query(...) or .mutation(...) link
HasMethodLink(expression) ==
    expression.e = "chain" /\
    \E i \in 1..Len(expression.links) : expression.links[i].name \in {"query", "mutation"}

\* the property is bound to a procedure
IsProcedure(property) ==
    IsAssigned(property) /\ ~IsMountProp(property) /\ HasMethodLink(property.init[1])

\* the edges, the procedures and the routes recorded under the name of a
\* property
EdgesNamed(name) == SelectSeq(out[1].mounts, LAMBDA e : e.property = name)
NodesNamed(name) == SelectSeq(out[1].nodes, LAMBDA n : n.procedure = name)
RoutesNamed(name) == SelectSeq(out[1].routes, LAMBDA r : EndsWith(r.path, sDot \o name))

\* C24: of the properties of a router's object literal, a router reference
\* records exactly one mount edge with its parent, property and target and
\* yields neither a procedure nor a route; a procedure yields exactly one
\* procedure and route and no edge; every other property yields nothing; and
\* nothing comes of the properties of the mounted router
C24_PropertyMountProcedureOrSkipped ==
    (out # None /\ inp[1].arg = "object") =>
        /\ \A i \in 1..Len(inp[1].props) :
            /\ IsMount(inp[1].props[i]) =>
                /\ Len(EdgesNamed(PropertyNames[i])) = 1
                /\ EdgesNamed(PropertyNames[i])[1].parent = out[1].routers[1].name
                /\ EdgesNamed(PropertyNames[i])[1].target = inp[1].props[i].init[1].text
                /\ NodesNamed(PropertyNames[i]) = <<>>
                /\ RoutesNamed(PropertyNames[i]) = <<>>
            /\ IsProcedure(inp[1].props[i]) =>
                /\ EdgesNamed(PropertyNames[i]) = <<>>
                /\ Len(NodesNamed(PropertyNames[i])) = 1
                /\ Len(RoutesNamed(PropertyNames[i])) = 1
            /\ (~IsMount(inp[1].props[i]) /\ ~IsProcedure(inp[1].props[i])) =>
                /\ EdgesNamed(PropertyNames[i]) = <<>>
                /\ NodesNamed(PropertyNames[i]) = <<>>
                /\ RoutesNamed(PropertyNames[i]) = <<>>
        /\ Len(out[1].mounts) + Len(out[1].nodes) <= Len(inp[1].props)
        /\ Len(out[1].routes) = Len(out[1].nodes)
        /\ NodesNamed(sPing) = <<>>

\* a router written in place and a router named, next to a procedure
C24_Witness ==
    /\ out # None
    /\ inp[1].arg = "object"
    /\ Len(inp[1].props) = 3
    /\ inp[1].props[1].init = Some(InlineRouter)
    /\ inp[1].props[2].init = Some(RouterRef(sUserRouter))
    /\ IsProcedure(inp[1].props[3])
    /\ Len(out[1].mounts) = 2
    /\ Len(out[1].routes) = 1

\* C25: a property bound to a builder chain without .query(...) or
\* .mutation(...) yields neither a procedure nor a route, whether or not the
\* chain has .input(...) or .output(...); a factory call whose first argument
\* is not an object literal yields no router, no mount edge, no procedure and
\* no route
C25_NoMethodNoProcedure ==
    out # None =>
        /\ \A i \in 1..Len(inp[1].props) :
            (inp[1].props[i].kind = "assignment"
                /\ inp[1].props[i].init[1].e = "chain"
                /\ ~HasMethodLink(inp[1].props[i].init[1])) =>
                    /\ NodesNamed(PropertyNames[i]) = <<>>
                    /\ RoutesNamed(PropertyNames[i]) = <<>>
        /\ inp[1].arg # "object" =>
            /\ out[1].routers = <<>>
            /\ out[1].mounts = <<>>
            /\ out[1].nodes = <<>>
            /\ out[1].routes = <<>>

\* a chain with .input(...) and .output(...) and no method, next to a
\* procedure that is emitted
C25_Witness ==
    /\ out # None
    /\ inp[1].arg = "object"
    /\ Len(inp[1].props) = 2
    /\ inp[1].props[1].kind = "assignment"
    /\ inp[1].props[1].init[1].e = "chain"
    /\ {inp[1].props[1].init[1].links[j].name :
            j \in 1..Len(inp[1].props[1].init[1].links)} = {"input", "output"}
    /\ IsProcedure(inp[1].props[2])
    /\ Len(out[1].routes) = 1

\* router(routes), the object of which has a procedure
C25_NoObjectWitness ==
    /\ out # None
    /\ inp[1].arg = "other"
    /\ Len(inp[1].props) = 1
    /\ IsProcedure(inp[1].props[1])
    /\ out[1].routes = <<>>

\* the router call that the first mount naming the router lies in, if any
FirstParent(callName) ==
    IF MountsInto(callName) = <<>> THEN None ELSE Some(MountsInto(callName)[1].parent)

RECURSIVE ReachesRoot(_, _)
\* following first mounts upward from the router ends at a router that
\* nothing mounts, within the number of steps
ReachesRoot(callName, steps) ==
    \/ FirstParent(callName) = None
    \/ steps > 0 /\ ReachesRoot(FirstParent(callName)[1], steps - 1)

\* the graph of the first mount of each router has no cycle
FirstEdgesAcyclic ==
    \A i \in 1..Len(ComposeCalls) : ReachesRoot(ComposeCalls[i].name, Len(ComposeCalls))

\* the declared routers in every order
Reorderings(routers) ==
    {[i \in 1..Len(routers) |-> routers[p[i]]] : p \in Permutations(1..Len(routers))}

\* C26: when the first mounts of the routers form no cycle, the resolver
\* gives every router the same path in whichever order the routers are
\* passed to it
C26_PathsIndependentOfRouterOrder ==
    (out # None /\ FirstEdgesAcyclic) =>
        \A routers \in Reorderings(out[1].declared) :
            resolveRouterPaths(routers, out[1].mounts) = out[1].resolver.resolved

\* a graph with a cycle that the first mounts do not follow, and a router
\* two levels below the root
C26_Witness ==
    /\ out # None
    /\ FirstEdgesAcyclic
    /\ \E r \in ComposeRouters : OnCycle(r, inp[1].mounts)
    /\ \E i \in 1..Len(out[1].declared) :
            Includes(out[1].resolver.resolved[out[1].declared[i].name], sDot)

------------------------------------------------------------------------------
(* The routes of one Next.js file *)

\* C27: the routes emitted for one Next.js source file have pairwise
\* distinct methods and one path, however many ways a verb is detected in
\* the file
C27_OneRoutePerVerb ==
    (Emitted("app") \/ Emitted("pages")) =>
        \A i, j \in 1..Len(out[1].routes) :
            /\ out[1].routes[i].method = out[1].routes[j].method => i = j
            /\ out[1].routes[i].path = out[1].routes[j].path

\* an App Router file with an exported GET function, an exported GET arrow
\* function and GET twice in its methods array: one GET route among several
C27_Witness ==
    /\ Emitted("app")
    /\ ExportsFunction(inp[1].file, sGET)
    /\ \E i \in 1..Len(inp[1].file.variables) :
            inp[1].file.variables[i].name = sGET /\ inp[1].file.variables[i].exported
    /\ MethodsArrayNames(inp[1].file, sGET)
    /\ Len(SelectSeq(out[1].routes, LAMBDA r : r.method = sGET)) = 1
    /\ Len(out[1].routes) >= 3

\* a Pages Router file with GET in a comparison, in a switch statement and in
\* its methods array
C27_PagesWitness ==
    /\ Emitted("pages")
    /\ inp[1].file.methodsExport = Some(<<sHEAD, sGET>>)
    /\ inp[1].file.defaultExport # None
    /\ inp[1].file.defaultExport[1].descendants =
            <<Binary("===", Access(sReq, sMethod), Literal(sGET)),
              Switch(Access(sReq, sMethod), <<Some(Literal(sGET)), Some(Literal(sOPTIONS)), None>>)>>
    /\ Len(SelectSeq(out[1].routes, LAMBDA r : r.method = sGET)) = 1
    /\ Len(out[1].routes) = 3

------------------------------------------------------------------------------
(* CollectionsProvider (the tree view of the extension).  The provider is  *)
(* the record held by `out`:                                               *)
(*   collections, loading, lastError : the fields of the class; loading is *)
(*              None or Some(n), the promise of the n-th pull              *)
(*   requests : the service.pullCollections() calls that have not settled  *)
(*   issued   : how many of them were made; outcomes[n] is "pending",      *)
(*              "ok" or "failed"                                           *)
(*   waiting  : the calls suspended at `await this.pull()`                 *)
(*   fired    : how often onDidChangeTreeData fired                        *)
(*   served   : what the finished getChildren() calls returned             *)
(* and `runs` counts the calls made on it.  A call runs to its first await *)
(* in one step; when a request settles, the rest of pull and of every call *)
(* that awaits it run in the same turn of the event loop.                  *)

MaxCalls == 4

\* what pullCollections resolves with
CollectionLists == {<<>>, <<<<"i", "n", "b", "o", "x">>>>}

NewProvider ==
    [collections |-> None, loading |-> None, lastError |-> None,
     requests |-> {}, issued |-> 0, outcomes |-> <<>>,
     waiting |-> <<>>, fired |-> 0, served |-> <<>>]

\* the last pull made has settled and failed
AfterFailure(p) ==
    p.requests = {} /\ p.issued > 0 /\ p.outcomes[p.issued] = "failed"

\* a call of the kind as it starts
Caller(kind, p) ==
    [kind |-> kind, awaits |-> 0, pulled |-> FALSE, joined |-> FALSE,
     afterFailure |-> AfterFailure(p)]

\* the body of pull past the test: lastError = null, the request is made and
\* the promise of the block is kept in loading
Requested(p, caller) ==
    [p EXCEPT !.lastError = None,
              !.issued = @ + 1,
              !.outcomes = Append(@, "pending"),
              !.requests = @ \cup {p.issued + 1},
              !.loading = Some(p.issued + 1),
              !.waiting = Append(@, [caller EXCEPT !.awaits = p.issued + 1,
                                                   !.pulled = TRUE])]

\* a request made whether or not one is pending
pullAlways(p, caller) == Requested(p, caller)

\* pull(): the pending promise if there is one, else a new request
pull(p, caller) ==
    IF p.loading # None
    THEN [p EXCEPT !.waiting = Append(@, [caller EXCEPT !.awaits = p.loading[1],
                                                        !.joined = TRUE])]
    ELSE Requested(p, caller)

\* getRootChildren past ensureLoaded: the error item, or the collections
RootChildren(p) ==
    [error |-> p.lastError # None,
     items |-> IF p.lastError # None \/ p.collections = None THEN <<>>
               ELSE p.collections[1]]

Serve(p, caller) ==
    [p EXCEPT !.served = Append(@, [view |-> RootChildren(p),
                                    pulled |-> caller.pulled,
                                    joined |-> caller.joined,
                                    afterFailure |-> caller.afterFailure])]

\* ensureLoaded, then the rest of getRootChildren: an array, empty or not,
\* is truthy, so only null leads to pull
ensureLoaded(p, caller) ==
    IF p.collections # None THEN Serve(p, caller) ELSE pull(p, caller)

\* the rest of a call after its await
Resume(p, caller) ==
    IF caller.kind = "pullAndRefresh" THEN [p EXCEPT !.fired = @ + 1]
    ELSE Serve(p, caller)

RECURSIVE ResumeAll(_, _)
ResumeAll(p, callers) ==
    IF callers = <<>> THEN p ELSE ResumeAll(Resume(p, Head(callers)), Tail(callers))

\* the list left as it was when the pull fails
FailedKeepsList(p, error) == [p EXCEPT !.lastError = Some(error)]

\* catch (error) { this.lastError = error; this.collections = []; }
Failed(p, error) == [p EXCEPT !.lastError = Some(error), !.collections = Some(<<>>)]

\* this.collections = await this.service.pullCollections()
Succeeded(p, list) == [p EXCEPT !.collections = Some(list)]

\* finally { this.loading = null; }, and the calls that awaited the promise
Settled(p, n, outcome) ==
    ResumeAll([p EXCEPT !.loading = None,
                        !.requests = @ \ {n},
                        !.outcomes[n] = outcome,
                        !.waiting = SelectSeq(@, LAMBDA c : c.awaits # n)],
              SelectSeq(p.waiting, LAMBDA c : c.awaits = n))

InitProvider ==
    /\ trpcRoot = sRootDir
    /\ routerMounts = <<>>
    /\ pagesRoot = sRootDir
    /\ pagesCache = EmptyMap
    /\ routePathCache = EmptyMap
    /\ last = NoCall
    /\ runs = 0
    /\ inp = None
    /\ out = NewProvider

\* pullAndRefresh() up to its await
PullAndRefresh ==
    /\ runs < MaxCalls
    /\ out' = pull(out, Caller("pullAndRefresh", out))
    /\ runs' = runs + 1
    /\ UNCHANGED <<trpcRoot, routerMounts, pagesRoot, pagesCache, routePathCache, last, inp>>

\* getChildren() for the root: to its end when the collections are loaded,
\* else up to the await of the pull
GetChildren ==
    /\ runs < MaxCalls
    /\ out' = ensureLoaded(out, Caller("getChildren", out))
    /\ runs' = runs + 1
    /\ UNCHANGED <<trpcRoot, routerMounts, pagesRoot, pagesCache, routePathCache, last, inp>>

\* refresh()
Refresh ==
    /\ runs < MaxCalls
    /\ out' = [out EXCEPT !.fired = @ + 1]
    /\ runs' = runs + 1
    /\ UNCHANGED <<trpcRoot, routerMounts, pagesRoot, pagesCache, routePathCache, last, inp>>

\* a pending pullCollections() resolves
PullSucceeds ==
    /\ \E n \in out.requests, list \in CollectionLists :
            out' = Settled(Succeeded(out, list), n, "ok")
    /\ UNCHANGED <<trpcRoot, routerMounts, pagesRoot, pagesCache, routePathCache, last,
                   runs, inp>>

\* a pending pullCollections() rejects with an Error
PullFails ==
    /\ \E n \in out.requests : out' = Settled(Failed(out, "Error"), n, "failed")
    /\ UNCHANGED <<trpcRoot, routerMounts, pagesRoot, pagesCache, routePathCache, last,
                   runs, inp>>

NextProvider == PullAndRefresh \/ GetChildren \/ Refresh \/ PullSucceeds \/ PullFails

SpecProvider == InitProvider /\ [][NextProvider]_vars

\* C29: at most one pullCollections request is pending; the pending marker
\* is set exactly while it is, and is its promise; every call suspended in
\* pull awaits that one promise
C29_OnePullInFlight ==
    /\ Cardinality(out.requests) <= 1
    /\ out.loading = None <=> out.requests = {}
    /\ out.loading # None => out.requests = {out.loading[1]}
    /\ \A i \in 1..Len(out.waiting) :
            out.loading # None /\ out.waiting[i].awaits = out.loading[1]
    /\ Len(SelectSeq(out.waiting, LAMBDA c : c.pulled)) = Cardinality(out.requests)

\* a getChildren and a pullAndRefresh that joined the pull another call made
C29_Witness ==
    /\ Cardinality(out.requests) = 1
    /\ Len(out.waiting) >= 3
    /\ \E i \in 1..Len(out.waiting) :
            out.waiting[i].kind = "getChildren" /\ out.waiting[i].joined
    /\ \E i \in 1..Len(out.waiting) :
            out.waiting[i].kind = "pullAndRefresh" /\ out.waiting[i].joined

\* the marker cleared after a pull that failed and had been joined
C29_ClearedAfterFailureWitness ==
    /\ AfterFailure(out)
    /\ out.loading = None
    /\ out.fired >= 2

\* C30: once every pull has settled the list is not null, and lastError is
\* set exactly when the pull made last failed, the list then being empty;
\* a getChildren that starts after a failed pull is answered with the error
\* item and makes or joins no pull
C30_ErrorIffLastPullFailed ==
    /\ (out.requests = {} /\ out.issued > 0) =>
            /\ out.collections # None
            /\ out.lastError # None <=> out.outcomes[out.issued] = "failed"
            /\ out.outcomes[out.issued] = "failed" => out.collections = Some(<<>>)
    /\ \A i \in 1..Len(out.served) :
            out.served[i].afterFailure =>
                /\ out.served[i].view.error
                /\ ~out.served[i].pulled
                /\ ~out.served[i].joined

\* a failed pull, the error item served, then a pull that succeeded and
\* cleared the error
C30_Witness ==
    /\ out.issued = 2
    /\ out.requests = {}
    /\ out.outcomes = <<"failed", "ok">>
    /\ out.lastError = None
    /\ out.collections = Some(<<<<"i", "n", "b", "o", "x">>>>)
    /\ \E i \in 1..Len(out.served) : out.served[i].afterFailure /\ out.served[i].view.error

\* a successful pull followed by one that failed
C30_FailureAfterSuccessWitness ==
    /\ out.issued = 2
    /\ out.requests = {}
    /\ out.outcomes = <<"ok", "failed">>
    /\ out.lastError # None
    /\ out.collections = Some(<<>>)

====
